---- MODULE Spec2Model ----
(***************************************************************************)
(* A state-machine model of libtorrent's ResourceManager                   *)
(* (src/src/torrent/download/resource_manager.cc), TransferList            *)
(* (src/src/torrent/data/transfer_list.cc), SocketStream                   *)
(* (src/src/net/socket_stream.cc), TrackerList                             *)
(* (src/src/torrent/tracker_list.cc) and TrackerUdp                        *)
(* (src/src/tracker/tracker_udp.cc).                                       *)
(*                                                                         *)
(* Conventions.  Group numbers and vector offsets are 0-based as in the    *)
(* C++ code; TLA+ sequences are 1-based, so group g is groups[g + 1] and   *)
(* offset k is entries[k + 1].  A pointer into the entry vector is the     *)
(* integer base + offset, where base is the address of the vector's        *)
(* current allocation; the null pointer is 0.  A call whose behaviour the  *)
(* language leaves undefined ends in the outcome "undefined", after which  *)
(* nothing more is modelled.  Unsigned 32-bit counters are kept as         *)
(* mathematical integers: every value the model reaches is far below 2^31, *)
(* and a counter that would wrap is negative instead, which every          *)
(* comparison of the code treats the same way (it differs from any small   *)
(* count).                                                                 *)
(***************************************************************************)
EXTENDS Integers, Sequences, FiniteSets, TLC

VARIABLES
  \* ---- ResourceManager ----
  entries,                    \* base_type: vector of resource_manager_entry
  groups,                     \* choke_base_type: vector of choke_group (name, first, last)
  queues,                     \* per group, per direction: the choke_queue's counts
  chokeGroup,                 \* DownloadMain::choke_group() of every download
  capacity,                   \* capacity() of the entry vector
  base,                       \* address of the entry vector's allocation (0: none)
  maxUploadUnchoked,          \* m_maxUploadUnchoked
  maxDownloadUnchoked,        \* m_maxDownloadUnchoked
  currentlyUploadUnchoked,    \* m_currentlyUploadUnchoked
  currentlyDownloadUnchoked,  \* m_currentlyDownloadUnchoked
  failedInserts,              \* how many insert calls have thrown so far
  rm,                         \* the last ResourceManager call and how it ended
  \* ---- TransferList ----
  transferList,               \* base_type: vector of BlockList
  completedList,              \* m_completedList: (timestamp, index) pairs
  succeededCount,             \* m_succeededCount
  failedCount,                \* m_failedCount
  now,                        \* utils::timer::current(), in minutes
  tl,                         \* the last TransferList call, how it ended, what it emitted
  \* ---- SocketStream ----
  stream,                     \* the last read/write_stream_throws call and its outcome
  \* ---- TrackerList::find_next_to_request ----
  probe,                      \* the trackers' states, the iterator handed in, the result
  \* ---- TrackerList ----
  trackers,                   \* base_type: vector of Tracker*, each shown with its Tracker
  trk,                        \* the last TrackerList call, how it ended, what it called
  \* ---- TrackerUdp ----
  udp,                        \* the members of one TrackerUdp and its poll and timer entries
  resolver,                   \* the resolver's pending requests: is the callback still set
  wire,                       \* the datagrams written to the socket since send_state
  parent                      \* the TrackerList callbacks the TrackerUdp has delivered

rmVars == <<entries, groups, queues, chokeGroup, capacity, base,
            maxUploadUnchoked, maxDownloadUnchoked,
            currentlyUploadUnchoked, currentlyDownloadUnchoked, failedInserts, rm>>

tlVars == <<transferList, completedList, succeededCount, failedCount, now, tl>>

trkVars == <<trackers, trk>>

udpVars == <<udp, resolver, wire, parent>>

netVars == <<stream, probe, trkVars, udpVars>>

vars == <<rmVars, tlVars, netVars>>

(***************************************************************************)
(* Bounds and input sets                                                   *)
(***************************************************************************)
\* Peers the choke queues hold between them.
MaxPeers == 3
\* Largest value handed to set_max_upload_unchoked / set_max_download_unchoked.
MaxLimit == 2

\* insert calls with a group that does not exist, per run.
MaxFailedInserts == 1

Downloads == {"d1", "d2", "d3"}
\* Fresh names handed to push_group, in the order they are used up. Names are
\* only ever compared for equality, so the order loses nothing.
GroupNames == <<"a", "b">>
\* Group numbers handed to insert and set_group.
GroupArgs == 0..Len(GroupNames)
Priorities == {1}
Dirs == {"up", "down"}

\* The smaller inputs used where the choke accounting is explored.
ChokeDownloads == {"d1"}
ChokeGroupNames == <<"a", "b">>

Null == 0
\* One peer fewer, no change, one peer more.
Steps == {0 - 1, 0, 1}
NoGroup == 0 - 1

\* hash_failed verdicts accepted per run, and hash_succeeded verdicts
\* accepted per run where the failure resolver is explored.
MaxFailed == 2
MaxSucceeded == 1
\* hash_succeeded verdicts accepted per run where the clock runs, and the
\* latest reading of the clock, in minutes.
MaxCompleted == 4
MaxNow == 120
\* Minutes the clock advances by between two calls.
ClockSteps == {15, 30}

\* Largest length handed to read_stream_throws / write_stream_throws.
MaxLength == 3
\* Values of errno: of each class the stream tells apart, and two of none.
Errnos == {"EAGAIN", "EWOULDBLOCK", "ECONNRESET", "EPIPE", "ENOBUFS", "EINVAL", "EBADF"}

\* Trackers in the list find_next_to_request walks.
MaxTrackers == 3
\* Values of failed_counter(): healthy, failing.
FailedCounters == {0, 1}
\* Values of failed_time_next() and success_time_next().
Times == {1, 2}

\* The trackers inserted into the TrackerList, in this order, and the fewer
\* ones used where the requests are explored.
TrackerIds == {1, 2, 3}
SendTrackerIds == {1, 2}
\* Requests the TrackerList sends per run.
MaxRequests == 3
\* Tiers; the last one is never inserted into.
TrackerGroups == {0, 1}
NoTrackerGroup == 2
\* Events handed to send_state.
Events == {"STARTED", "SCRAPE"}

\* TrackerUdp: the configured udp_tries values a behaviour may start with.
MaxTries == 3
\* TrackerUdp: the send_state calls one behaviour makes, by number.
SendNumbers == {1, 2}
\* TrackerUdp: the values random_uint32 may return.
TransactionIds == {1, 2}
\* TrackerUdp: the states handed to send_state (Tracker::EVENT_* numbers).
SendStates == {0, 2}
\* TrackerUdp: the action words a received datagram may start with.
ReplyActions == {0, 1, 2, 3}
\* TrackerUdp: the sizes read_datagram may report; -1 is a failed read.
ReplySizes == {0 - 1, 3, 4, 7, 8, 15, 16, 19, 20, 26}
\* TrackerUdp: the low byte of the connection id in a connect reply.
ReplyConnectionIds == {7}

\* The arguments set_max_upload_unchoked and set_max_download_unchoked are
\* called with.
LimitArgs == {0, 1, 65535, 65536, 65537}
\* The priorities download_set_priority is called with.
PriorityArgs == {0, 1, 1024, 1025, 65536}
\* The adjustments the queues report to receive_upload_unchoke and
\* receive_download_unchoke, and the largest running total followed.
Deltas == {0 - 2, 0 - 1, 1, 2}
MaxTotal == 3

Peers == {"p1", "p2"}
\* Contents a block's byte range can take.
Data == {"x", "y"}
\* Piece indices; piece i is cut into BlockCount(i) blocks.
Pieces == {0, 1}
BlockCount(i) == i + 1
\* The single-block piece used where the clock runs.
ClockPieces == {0}
\* ~uint32_t(): no failed_index, no current entry.
Unset == 0 - 1
\* A block without a leader transfer.
NoLeader == 0 - 1

(***************************************************************************)
(* Helpers                                                                 *)
(***************************************************************************)
Min(a, b) == IF a < b THEN a ELSE b

SetMin(S) == CHOOSE x \in S : \A y \in S : x <= y

SetMax(S) == CHOOSE x \in S : \A y \in S : y <= x

\* vector::insert before offset k
InsertAt(s, k, e) == SubSeq(s, 1, k) \o <<e>> \o SubSeq(s, k + 1, Len(s))

\* vector::erase of offset k
RemoveAt(s, k) == SubSeq(s, 1, k) \o SubSeq(s, k + 2, Len(s))

RECURSIVE SumSeq(_)
SumSeq(s) == IF s = <<>> THEN 0 ELSE Head(s) + SumSeq(Tail(s))

\* std::find_if(from, end(), g < v.group()): offset of the first such entry, else end
FindIf(es, from, g) ==
  LET S == {k \in from..(Len(es) - 1) : es[k + 1].group > g}
  IN IF S = {} THEN Len(es) ELSE SetMin(S)

FindGroupEnd(es, g) == FindIf(es, 0, g)

\* The value of entry_itr when the scan of update_group_iterators and
\* validate_group_iterators reaches group g.
RECURSIVE EntryItr(_, _)
EntryItr(es, g) == IF g = 0 THEN 0 ELSE FindIf(es, EntryItr(es, g - 1), g - 1)

UpdateGroupIterators(gs, es, b) ==
  [i \in 1..Len(gs) |->
     [gs[i] EXCEPT !.first = b + EntryItr(es, i - 1), !.last = b + EntryItr(es, i)]]

ValidateGroupIterators(gs, es, b) ==
  IF es = <<>>
  THEN IF \E i \in 1..Len(gs) : gs[i].first # Null \/ gs[i].last # Null
       THEN "invalid non-null iterator"
       ELSE "ok"
  ELSE LET badFirst == {i \in 1..Len(gs) : gs[i].first # b + EntryItr(es, i - 1)}
           badLast  == {i \in 1..Len(gs) : gs[i].last # b + EntryItr(es, i)}
       IN IF badFirst \cup badLast = {} THEN "ok"
          ELSE IF SetMin(badFirst \cup badLast) \in badFirst
               THEN "invalid first iterator"
               ELSE "invalid last iterator"

EmptyQueue == [req |-> 0, unch |-> 0]

Registered == {entries[k].download : k \in 1..Len(entries)}

Alive == rm.res # "undefined"

\* The names push_group is tried with: the empty name, every name in use,
\* and the next fresh name of `fresh`.
FreshName(fresh) == {fresh[i] : i \in {Len(groups) + 1} \cap DOMAIN fresh}

NameArgs(fresh) ==
  {""} \cup {groups[i].name : i \in 1..Len(groups)} \cup FreshName(fresh)

\* The address of a new allocation of the entry vector: one no older
\* allocation has.
NewBase(cap) == 100 * cap

Done(op, res) == rm' = [op |-> op, res |-> res, wrapped |-> FALSE]

(***************************************************************************)
(* ResourceManager operations                                              *)
(***************************************************************************)
InitRM ==
  /\ entries = <<>>
  /\ groups = <<>>
  /\ queues = <<>>
  /\ chokeGroup = [d \in Downloads |-> NoGroup]
  /\ capacity = 0
  /\ base = Null
  /\ maxUploadUnchoked = 0
  /\ maxDownloadUnchoked = 0
  /\ currentlyUploadUnchoked = 0
  /\ currentlyDownloadUnchoked = 0
  /\ failedInserts = 0
  /\ rm = [op |-> "init", res |-> "ok", wrapped |-> FALSE]

PushGroupUnchecked(name) ==
  /\ Alive
  /\ groups' = Append(groups,
        [name  |-> name,
         first |-> IF entries # <<>> THEN base + Len(entries) ELSE Null,
         last  |-> IF entries # <<>> THEN base + Len(entries) ELSE Null])
  /\ queues' = Append(queues, [dir \in Dirs |-> EmptyQueue])
  /\ Done("push_group", "ok")
  /\ UNCHANGED <<entries, chokeGroup, capacity, base, maxUploadUnchoked,
                 maxDownloadUnchoked, currentlyUploadUnchoked,
                 currentlyDownloadUnchoked, failedInserts, tlVars, netVars>>

PushGroup(name) ==
  /\ Alive
  /\ IF name = "" \/ \E i \in 1..Len(groups) : groups[i].name = name
     THEN /\ Done("push_group", "input_error")
          /\ UNCHANGED <<groups, queues>>
     ELSE /\ groups' = Append(groups,
                 [name  |-> name,
                  first |-> IF entries # <<>> THEN base + Len(entries) ELSE Null,
                  last  |-> IF entries # <<>> THEN base + Len(entries) ELSE Null])
          /\ queues' = Append(queues, [dir \in Dirs |-> EmptyQueue])
          /\ Done("push_group", "ok")
  /\ UNCHANGED <<entries, chokeGroup, capacity, base, maxUploadUnchoked,
                 maxDownloadUnchoked, currentlyUploadUnchoked,
                 currentlyDownloadUnchoked, failedInserts, tlVars, netVars>>

\* base_type::insert: the vector reallocates when it is full, and then its
\* storage moves to another address.
Insert(d, g, pri) ==
  /\ Alive
  /\ d \notin Registered
  /\ g >= Len(groups) => failedInserts < MaxFailedInserts
  /\ entries' = InsertAt(entries, FindGroupEnd(entries, g),
                         [download |-> d, group |-> g, priority |-> pri])
  /\ IF Len(entries) = capacity
     THEN /\ capacity' = IF capacity = 0 THEN 1 ELSE 2 * capacity
          /\ base' = NewBase(capacity')
     ELSE UNCHANGED <<capacity, base>>
  /\ IF g >= Len(groups)
     THEN \* choke_base_type::at(entry.group()) throws std::out_of_range
          /\ Done("insert", "out_of_range")
          /\ failedInserts' = failedInserts + 1
          /\ UNCHANGED <<groups, chokeGroup>>
     ELSE /\ chokeGroup' = [chokeGroup EXCEPT ![d] = g]
          /\ groups' = UpdateGroupIterators(groups, entries', base')
          /\ Done("insert", "ok")
          /\ UNCHANGED failedInserts
  /\ UNCHANGED <<queues, maxUploadUnchoked, maxDownloadUnchoked,
                 currentlyUploadUnchoked, currentlyDownloadUnchoked, tlVars, netVars>>

EraseIterators(gs, g, size) ==
  IF size = 1
  THEN [i \in 1..Len(gs) |->
          IF i - 1 >= g THEN [gs[i] EXCEPT !.first = Null, !.last = Null] ELSE gs[i]]
  ELSE [i \in 1..Len(gs) |->
          IF i - 1 = g THEN [gs[i] EXCEPT !.last = @ - 1]
          ELSE IF i - 1 > g THEN [gs[i] EXCEPT !.first = @ - 1, !.last = @ - 1]
          ELSE gs[i]]

Erase(d) ==
  /\ Alive
  /\ LET S == {k \in 0..(Len(entries) - 1) : entries[k + 1].download = d}
     IN IF S = {}
        THEN /\ Done("erase", "internal_error")
             /\ UNCHANGED <<entries, groups>>
        ELSE LET k == SetMin(S)
                 g == entries[k + 1].group
             IN IF g >= Len(groups)
                THEN \* group_at(itr->group()) throws
                     /\ Done("erase", "input_error")
                     /\ UNCHANGED <<entries, groups>>
                ELSE /\ groups' = EraseIterators(groups, g, Len(entries))
                     /\ entries' = RemoveAt(entries, k)
                     /\ Done("erase", "ok")
  /\ UNCHANGED <<queues, chokeGroup, capacity, base, maxUploadUnchoked,
                 maxDownloadUnchoked, currentlyUploadUnchoked,
                 currentlyDownloadUnchoked, failedInserts, tlVars, netVars>>

SetGroupIterators(gs, src, dest) ==
  IF dest < src
  THEN [i \in 1..Len(gs) |->
          IF i - 1 = dest THEN [gs[i] EXCEPT !.last = @ + 1]
          ELSE IF dest < i - 1 /\ i - 1 < src
               THEN [gs[i] EXCEPT !.first = @ + 1, !.last = @ + 1]
          ELSE IF i - 1 = src THEN [gs[i] EXCEPT !.first = @ + 1]
          ELSE gs[i]]
  ELSE [i \in 1..Len(gs) |->
          IF i - 1 = src THEN [gs[i] EXCEPT !.last = @ - 1]
          ELSE IF src < i - 1 /\ i - 1 < dest
               THEN [gs[i] EXCEPT !.first = @ - 1, !.last = @ - 1]
          ELSE IF i - 1 = dest THEN [gs[i] EXCEPT !.first = @ - 1]
          ELSE gs[i]]

\* choke_queue::move_connections(src, dest, ...): kr of the source queue's
\* peers, ku of them unchoked, belong to the download and move with it.
MoveConnections(qs, src, dest, dir, kr, ku) ==
  IF src = dest THEN qs
  ELSE [qs EXCEPT ![src + 1][dir] = [req |-> @.req - kr, unch |-> @.unch - ku],
                  ![dest + 1][dir] = [req |-> @.req + kr, unch |-> @.unch + ku]]

Movable(q, dq) ==
  {m \in (0..q.req) \X (0..q.unch) :
     /\ m[2] <= m[1]
     /\ q.unch - m[2] <= q.req - m[1]
     /\ dq.req + m[1] <= MaxPeers}

SetGroup(k, grp) ==
  /\ Alive
  /\ k \in 0..(Len(entries) - 1)
  /\ LET e == entries[k + 1]
         d == e.download
     IN IF e.group = grp
        THEN /\ Done("set_group", "ok")
             /\ UNCHANGED <<entries, groups, queues, chokeGroup>>
        ELSE IF grp >= Len(groups)
        THEN /\ Done("set_group", "input_error")
             /\ UNCHANGED <<entries, groups, queues, chokeGroup>>
        ELSE IF chokeGroup[d] = NoGroup \/ e.group >= Len(groups)
        THEN \* a null choke_group, or a group iterator past the end, is dereferenced
             /\ Done("set_group", "undefined")
             /\ UNCHANGED <<entries, groups, queues, chokeGroup>>
        ELSE \E mu \in Movable(queues[chokeGroup[d] + 1]["up"], queues[grp + 1]["up"]),
                md \in Movable(queues[chokeGroup[d] + 1]["down"], queues[grp + 1]["down"]) :
               /\ queues' = MoveConnections(
                               MoveConnections(queues, chokeGroup[d], grp, "up", mu[1], mu[2]),
                               chokeGroup[d], grp, "down", md[1], md[2])
               /\ chokeGroup' = [chokeGroup EXCEPT ![d] = grp]
               /\ entries' = LET er == RemoveAt(entries, k)
                             IN InsertAt(er, FindGroupEnd(er, grp), [e EXCEPT !.group = grp])
               /\ groups' = SetGroupIterators(groups, e.group, grp)
               /\ Done("set_group", "ok")
  /\ UNCHANGED <<capacity, base, maxUploadUnchoked, maxDownloadUnchoked,
                 currentlyUploadUnchoked, currentlyDownloadUnchoked, failedInserts, tlVars, netVars>>

\* set_max_upload_unchoked(m)
SetMaxUploadUnchoked(m) ==
  /\ Alive
  /\ IF m > 65536
     THEN /\ Done("set_max_upload_unchoked", "input_error")
          /\ UNCHANGED maxUploadUnchoked
     ELSE /\ maxUploadUnchoked' = m
          /\ Done("set_max_upload_unchoked", "ok")
  /\ UNCHANGED <<entries, groups, queues, chokeGroup, capacity, base,
                 maxDownloadUnchoked, currentlyUploadUnchoked,
                 currentlyDownloadUnchoked, failedInserts, tlVars, netVars>>

\* set_max_download_unchoked(m)
SetMaxDownloadUnchoked(m) ==
  /\ Alive
  /\ IF m > 65536
     THEN /\ Done("set_max_download_unchoked", "input_error")
          /\ UNCHANGED maxDownloadUnchoked
     ELSE /\ maxDownloadUnchoked' = m
          /\ Done("set_max_download_unchoked", "ok")
  /\ UNCHANGED <<entries, groups, queues, chokeGroup, capacity, base,
                 maxUploadUnchoked, currentlyUploadUnchoked,
                 currentlyDownloadUnchoked, failedInserts, tlVars, netVars>>

ReceiveUnchokeUnchecked(cur, num) == [res |-> "ok", cur |-> cur + num]

\* receive_upload_unchoke(num) and receive_download_unchoke(num) on the
\* running total cur: the new total, or a throw that leaves it as it was.
ReceiveUnchoke(cur, num) ==
  IF cur + num < 0
  THEN [res |-> "internal_error", cur |-> cur]
  ELSE [res |-> "ok", cur |-> cur + num]

\* torrent::download_set_priority(d, pri)
DownloadSetPriority(d, pri) ==
  /\ Alive
  /\ LET S == {k \in 1..Len(entries) : entries[k].download = d}
     IN IF S = {}
        THEN /\ Done("download_set_priority", "internal_error")
             /\ UNCHANGED entries
        ELSE IF pri > 1024
        THEN /\ Done("download_set_priority", "internal_error")
             /\ UNCHANGED entries
        ELSE /\ entries' = [entries EXCEPT ![SetMin(S)].priority = pri]
             /\ Done("download_set_priority", "ok")
  /\ UNCHANGED <<groups, queues, chokeGroup, capacity, base, maxUploadUnchoked,
                 maxDownloadUnchoked, currentlyUploadUnchoked,
                 currentlyDownloadUnchoked, failedInserts, tlVars, netVars>>

\* receive_upload_unchoke(num), called on its own.
ReceiveUploadUnchoke(num) ==
  /\ Alive
  /\ LET rcv == ReceiveUnchoke(currentlyUploadUnchoked, num)
     IN /\ currentlyUploadUnchoked' = rcv.cur
        /\ Done("receive_upload_unchoke", rcv.res)
  /\ UNCHANGED <<entries, groups, queues, chokeGroup, capacity, base,
                 maxUploadUnchoked, maxDownloadUnchoked,
                 currentlyDownloadUnchoked, failedInserts, tlVars, netVars>>

\* receive_download_unchoke(num), called on its own.
ReceiveDownloadUnchoke(num) ==
  /\ Alive
  /\ LET rcv == ReceiveUnchoke(currentlyDownloadUnchoked, num)
     IN /\ currentlyDownloadUnchoked' = rcv.cur
        /\ Done("receive_download_unchoke", rcv.res)
  /\ UNCHANGED <<entries, groups, queues, chokeGroup, capacity, base,
                 maxUploadUnchoked, maxDownloadUnchoked,
                 currentlyUploadUnchoked, failedInserts, tlVars, netVars>>

SumUnchoked(qs, dir) == SumSeq([i \in 1..Len(qs) |-> qs[i][dir].unch])

TotalRequested(qs) ==
  SumSeq([i \in 1..Len(qs) |-> qs[i]["up"].req + qs[i]["down"].req])

\* A choke queue changes outside a tick (a peer connects, leaves, becomes
\* interested, gets choked or unchoked): group g's queue of direction dir
\* gains dr candidates and du unchoked ones, and reports the change of its
\* unchoked count through slot_unchoke, which push_group wired to
\* receive_upload_unchoke (up queue) or receive_download_unchoke (down queue).
QueueChange(g, dir, dr, du) ==
  /\ Alive
  /\ g < Len(groups)
  /\ LET r == queues[g + 1][dir].req + dr
         u == queues[g + 1][dir].unch + du
         rcv == ReceiveUnchoke(IF dir = "up" THEN currentlyUploadUnchoked
                               ELSE currentlyDownloadUnchoked, du)
         qs == [queues EXCEPT ![g + 1][dir] = [req |-> r, unch |-> u]]
     IN /\ 0 <= u /\ u <= r
        /\ TotalRequested(qs) <= MaxPeers
        /\ qs # queues
        /\ queues' = IF rcv.res = "ok" THEN qs ELSE queues
        /\ currentlyUploadUnchoked' =
             IF dir = "up" THEN rcv.cur ELSE currentlyUploadUnchoked
        /\ currentlyDownloadUnchoked' =
             IF dir = "down" THEN rcv.cur ELSE currentlyDownloadUnchoked
        /\ Done("queue_change", rcv.res)
  /\ UNCHANGED <<entries, groups, chokeGroup, capacity, base, maxUploadUnchoked,
                 maxDownloadUnchoked, failedInserts, tlVars, netVars>>

\* choke_queue::cycle(quota): the queue's unchoked count afterwards, with
\* quota < 0 standing for an unlimited quota.
Cycle(q, quota) == IF quota < 0 THEN q.req ELSE Min(q.req, quota)

\* The groups in any order, as if the sort were left out.
OrdersUnsorted(qs, dir) ==
  {o \in [1..Len(qs) -> 1..Len(qs)] : \A i, j \in 1..Len(qs) : i # j => o[i] # o[j]}

\* The orders std::sort can leave the groups in: ascending by requested count.
Orders(qs, dir) ==
  {o \in [1..Len(qs) -> 1..Len(qs)] :
     /\ \A i, j \in 1..Len(qs) : i # j => o[i] # o[j]
     /\ \A i, j \in 1..Len(qs) : i < j => qs[o[i]][dir].req <= qs[o[j]][dir].req}

\* quota -= cm->size_unchoked(), with a debit that charges nothing to
\* compare it with.
DebitNone(quota, nu) == quota

Debit(quota, nu) == quota - nu

\* The loop of balance_unchoked over the sorted groups, from the i-th on.
\* A quota that dropped below zero has wrapped to a huge unsigned value.
RECURSIVE BalanceLoop(_, _, _, _, _, _)
BalanceLoop(qs, dir, ord, i, quota, weight) ==
  IF i > Len(ord)
  THEN [queues |-> qs, weight |-> weight, wrapped |-> FALSE]
  ELSE LET g == ord[i]
           offer == IF weight = 0 THEN 0
                    ELSE IF quota < 0 THEN 0 - 1
                    ELSE quota \div weight
           nu == Cycle(qs[g][dir], offer)
           rest == BalanceLoop([qs EXCEPT ![g][dir].unch = nu], dir, ord, i + 1,
                               Debit(quota, nu), weight - 1)
       IN [rest EXCEPT !.wrapped = @ \/ (quota >= 0 /\ Debit(quota, nu) < 0)]

\* The sum balance_unchoked returns: what the cycle calls changed, with a
\* sum of the resulting sizes to compare it with.
ChangeAsSize(before, after, dir) == SumUnchoked(after, dir)

Change(before, after, dir) == SumUnchoked(after, dir) - SumUnchoked(before, dir)

\* balance_unchoked(weight, max_unchoked, is_up) with the sort's outcome ord.
BalanceUnchoked(qs, weight, max_unchoked, dir, ord) ==
  LET r == IF max_unchoked = 0
           THEN [queues  |-> [i \in 1..Len(qs) |->
                                [qs[i] EXCEPT ![dir].unch = Cycle(qs[i][dir], 0 - 1)]],
                 weight  |-> 0,
                 wrapped |-> FALSE]
           ELSE BalanceLoop(qs, dir, ord, 1, max_unchoked, weight)
  IN [queues  |-> r.queues,
      change  |-> Change(qs, r.queues, dir),
      wrapped |-> r.wrapped,
      res     |-> IF r.weight # 0 THEN "weight did not reach zero" ELSE "ok"]

TickResult(up, down, cu, cd, qs) ==
  IF up.res # "ok" THEN up.res
  ELSE IF down.res # "ok" THEN down.res
  ELSE IF cu # SumUnchoked(qs, "up") THEN "upload mismatch"
  ELSE IF cd # SumUnchoked(qs, "down") THEN "download mismatch"
  ELSE "ok"

ReceiveTick ==
  /\ Alive
  /\ LET v == ValidateGroupIterators(groups, entries, base)
     IN IF v # "ok"
        THEN /\ Done("receive_tick", v)
             /\ UNCHANGED <<queues, currentlyUploadUnchoked, currentlyDownloadUnchoked>>
        ELSE \E ou \in Orders(queues, "up") :
               LET up == BalanceUnchoked(queues, Len(groups), maxUploadUnchoked, "up", ou)
               IN \E od \in Orders(up.queues, "down") :
                    LET down == BalanceUnchoked(up.queues, Len(groups),
                                                maxDownloadUnchoked, "down", od)
                    IN /\ queues' = down.queues
                       /\ currentlyUploadUnchoked' = currentlyUploadUnchoked + up.change
                       /\ currentlyDownloadUnchoked' =
                            currentlyDownloadUnchoked + down.change
                       /\ rm' = [op  |-> "receive_tick",
                                 res |-> TickResult(up, down, currentlyUploadUnchoked',
                                                    currentlyDownloadUnchoked', queues'),
                                 wrapped |-> up.wrapped \/ down.wrapped]
  /\ UNCHANGED <<entries, groups, chokeGroup, capacity, base, maxUploadUnchoked,
                 maxDownloadUnchoked, failedInserts, tlVars, netVars>>

(***************************************************************************)
(* TransferList operations                                                 *)
(*                                                                         *)
(* A BlockList is [index, blocks, failed, attempt].  A Block is            *)
(* [leader, transfers, failedList, current, bytes]: transfers holds every  *)
(* transfer the block keeps (its peer and its failed_index), leader is the *)
(* offset of the leader transfer in it, failedList is the BlockFailed      *)
(* vector of (data, count) entries (empty: no list yet), current is the    *)
(* offset of its current entry, and bytes is what the chunk holds in the   *)
(* block's byte range.  A block is finished when it has a leader.          *)
(***************************************************************************)
NewBlock ==
  [leader |-> NoLeader, transfers |-> <<>>, failedList |-> <<>>,
   current |-> Unset, bytes |-> "none"]

\* new BlockList(piece, blockSize)
NewBlockList(index) ==
  [index |-> index, blocks |-> [b \in 1..BlockCount(index) |-> NewBlock],
   failed |-> 0, attempt |-> 0]

\* find(index): the offset of the first BlockList of that index, Len(list)
\* for end().
Find(list, index) ==
  SetMin({k \in 0..(Len(list) - 1) : list[k + 1].index = index} \cup {Len(list)})

IsFinished(block) == block.leader # NoLeader

\* count_if(begin, end, is_finished) == size()
AllFinished(bl) == \A b \in 1..Len(bl.blocks) : IsFinished(bl.blocks[b])

TLAlive == tl.res # "undefined"

Event(ev, arg) == [ev |-> ev, arg |-> arg]

TLDone(op, res, events) == tl' = [op |-> op, res |-> res, events |-> events]

InitTL ==
  /\ transferList = <<>>
  /\ completedList = <<>>
  /\ succeededCount = 0
  /\ failedCount = 0
  /\ now = 0
  /\ tl = [op |-> "init", res |-> "ok", events |-> <<>>]

\* insert(piece, blockSize), without its search for the index.
TLInsertUnchecked(index) ==
  /\ TLAlive
  /\ transferList' = Append(transferList, NewBlockList(index))
  /\ TLDone("insert", "ok", <<Event("queued", index)>>)
  /\ UNCHANGED <<completedList, succeededCount, failedCount, now, rmVars, netVars>>

\* insert(piece, blockSize)
TLInsert(index) ==
  /\ TLAlive
  /\ IF Find(transferList, index) # Len(transferList)
     THEN /\ TLDone("insert", "internal_error", <<>>)
          /\ UNCHANGED transferList
     ELSE /\ transferList' = Append(transferList, NewBlockList(index))
          /\ TLDone("insert", "ok", <<Event("queued", index)>>)
  /\ UNCHANGED <<completedList, succeededCount, failedCount, now, rmVars, netVars>>

\* erase(itr) that always erases begin().
EraseFront(list, k) ==
  IF k = Len(list)
  THEN [res |-> "internal_error", list |-> list]
  ELSE [res |-> "ok", list |-> Tail(list)]

\* erase(itr) on the vector, itr at offset k (Len(list): end()).
EraseItr(list, k) ==
  IF k = Len(list)
  THEN [res |-> "internal_error", list |-> list]
  ELSE [res |-> "ok", list |-> RemoveAt(list, k)]

TLErase(k) ==
  /\ TLAlive
  /\ transferList' = EraseItr(transferList, k).list
  /\ TLDone("erase", EraseItr(transferList, k).res, <<>>)
  /\ UNCHANGED <<completedList, succeededCount, failedCount, now, rmVars, netVars>>

\* clear()
TLClear ==
  /\ TLAlive
  /\ TLDone("clear", "ok",
            [n \in 1..Len(transferList) |-> Event("canceled", transferList[n].index)])
  /\ transferList' = <<>>
  /\ UNCHANGED <<completedList, succeededCount, failedCount, now, rmVars, netVars>>

\* finished(transfer), for the transfer by which peer p delivered the bytes d
\* of block b of the BlockList at offset k and became its leader.
Finished(k, b, p, d, valid) ==
  /\ TLAlive
  /\ k < Len(transferList)
  /\ b \in 1..Len(transferList[k + 1].blocks)
  /\ ~IsFinished(transferList[k + 1].blocks[b])
  /\ IF ~valid
     THEN /\ TLDone("finished", "internal_error", <<>>)
          /\ UNCHANGED transferList
     ELSE LET bl == transferList[k + 1]
              blk == bl.blocks[b]
              nblk == [blk EXCEPT
                         !.transfers = Append(@, [peer |-> p, failedIndex |-> Unset]),
                         !.leader = Len(blk.transfers),
                         !.bytes = d]
              nbl == [bl EXCEPT !.blocks[b] = nblk]
          IN /\ transferList' = [transferList EXCEPT ![k + 1] = nbl]
             /\ TLDone("finished", "ok",
                       IF AllFinished(nbl) THEN <<Event("completed", bl.index)>>
                       ELSE <<>>)
  /\ UNCHANGED <<completedList, succeededCount, failedCount, now, rmVars, netVars>>

\* A search of the failed list that finds nothing.
MatchIndexNone(fl, bytes) == Len(fl)

\* find_if(begin, end, transfer_list_compare_data(chunk, piece)): the offset
\* of the first entry holding these bytes, Len(fl) for end().
MatchIndex(fl, bytes) ==
  SetMin({k \in 0..(Len(fl) - 1) : fl[k + 1].data = bytes} \cup {Len(fl)})

MaxCountOffsets(fl) ==
  {k \in 0..(Len(fl) - 1) : \A j \in 1..Len(fl) : fl[j].count <= fl[k + 1].count}

\* BlockFailed::max_element(): the first entry with the largest count.
MaxElement(fl) == SetMin(MaxCountOffsets(fl))

\* BlockFailed::reverse_max_element(): the last entry with the largest count.
ReverseMaxElement(fl) == SetMax(MaxCountOffsets(fl))

\* The loop body counting every matched entry that held the largest count,
\* the only such entry too.
UpdateFailedBlockSoleMax(block) ==
  LET fl == block.failedList
      k == MatchIndex(fl, block.bytes)
      fresh == k = Len(fl)
      nfl == IF fresh THEN Append(fl, [data |-> block.bytes, count |-> 1])
             ELSE [fl EXCEPT ![k + 1].count = @ + 1]
      gain == ~fresh /\ fl[MaxElement(fl) + 1].count = fl[k + 1].count
  IN [block |-> [block EXCEPT !.failedList = nfl,
                              !.current = k,
                              !.transfers[block.leader + 1].failedIndex = k],
      promoted |-> IF gain THEN 1 ELSE 0]

\* The body of update_failed's loop for one block: the block afterwards and
\* what it adds to promoted.
UpdateFailedBlock(block) ==
  LET fl == block.failedList
      k == MatchIndex(fl, block.bytes)
      fresh == k = Len(fl)
      nfl == IF fresh THEN Append(fl, [data |-> block.bytes, count |-> 1])
             ELSE [fl EXCEPT ![k + 1].count = @ + 1]
      gain == /\ ~fresh
              /\ fl[MaxElement(fl) + 1].count = fl[k + 1].count
              /\ MaxElement(fl) # ReverseMaxElement(fl)
  IN [block |-> [block EXCEPT !.failedList = nfl,
                              !.current = k,
                              !.transfers[block.leader + 1].failedIndex = k],
      promoted |-> IF gain THEN 1 ELSE 0]

\* update_failed(blockList, chunk)
UpdateFailed(bl) ==
  [blockList |-> [bl EXCEPT !.failed = @ + 1,
                            !.blocks = [b \in 1..Len(bl.blocks) |->
                                          UpdateFailedBlock(bl.blocks[b]).block]],
   promoted |-> SumSeq([b \in 1..Len(bl.blocks) |->
                          UpdateFailedBlock(bl.blocks[b]).promoted])]

\* A loop body that leaves every block as it is.
RetryBlockNever(block) == block

\* The body of retry_most_popular's loop for one block.
RetryBlock(block) ==
  LET r == ReverseMaxElement(block.failedList)
  IN IF r = block.current THEN block
     ELSE [block EXCEPT !.bytes = block.failedList[r + 1].data, !.current = r]

\* retry_most_popular(blockList, chunk): it throws at the first block whose
\* failed list has no entry, the blocks before it done.
RetryMostPopular(bl) ==
  LET stop == SetMin({b \in 1..Len(bl.blocks) : bl.blocks[b].failedList = <<>>}
                       \cup {Len(bl.blocks) + 1})
  IN [blockList |-> [bl EXCEPT !.blocks = [b \in 1..Len(bl.blocks) |->
                                             IF b < stop THEN RetryBlock(bl.blocks[b])
                                             ELSE bl.blocks[b]]],
      res |-> IF stop <= Len(bl.blocks) THEN "internal_error" ELSE "ok",
      events |-> IF stop <= Len(bl.blocks) THEN <<>>
                 ELSE <<Event("completed", bl.index)>>]

\* BlockList::do_all_failed(): every block is to be downloaded again, by a
\* new leader, and the piece starts over at attempt 0; the transfers the
\* blocks keep, their failed lists and the failed count stay.
DoAllFailed(bl) ==
  [bl EXCEPT !.attempt = 0,
             !.blocks = [b \in 1..Len(bl.blocks) |->
                           [bl.blocks[b] EXCEPT !.leader = NoLeader]]]

\* promoted > 0 || promoted < size, with a conjunction to compare it with.
RetryWantedBoth(promoted, size) == promoted > 0 /\ promoted < size

RetryWanted(promoted, size) == promoted > 0 \/ promoted < size

\* hash_failed from its attempt test on, for the BlockList bl found.
ResolveFailed(bl) ==
  IF bl.attempt = 0
  THEN LET u == UpdateFailed(bl)
       IN IF RetryWanted(u.promoted, Len(bl.blocks))
          THEN RetryMostPopular([u.blockList EXCEPT !.attempt = 1])
          ELSE [blockList |-> DoAllFailed(u.blockList), res |-> "ok", events |-> <<>>]
  ELSE [blockList |-> DoAllFailed(bl), res |-> "ok", events |-> <<>>]

\* hash_failed(index, chunk)
HashFailed(index) ==
  /\ TLAlive
  /\ LET k == Find(transferList, index)
     IN IF k = Len(transferList) \/ ~AllFinished(transferList[k + 1])
        THEN /\ TLDone("hash_failed", "internal_error", <<>>)
             /\ UNCHANGED <<transferList, failedCount>>
        ELSE LET r == ResolveFailed(transferList[k + 1])
             IN /\ failedCount' = failedCount + 1
                /\ transferList' = [transferList EXCEPT ![k + 1] = r.blockList]
                /\ TLDone("hash_failed", r.res, r.events)
  /\ UNCHANGED <<completedList, succeededCount, now, rmVars, netVars>>

\* The test of mark_failed_peers on one transfer, without its test for an
\* unset failed_index.
IsBadUnsetToo(transfer, current) == transfer.failedIndex # current

\* transfer->failed_index() != current && transfer->failed_index() != ~uint32_t()
IsBad(transfer, current) ==
  transfer.failedIndex # current /\ transfer.failedIndex # Unset

\* mark_failed_peers(blockList, chunk): the peers it collects in badPeers.
MarkFailedPeers(bl) ==
  {p \in Peers :
     \E b \in 1..Len(bl.blocks) :
       LET block == bl.blocks[b]
           current == MatchIndex(block.failedList, block.bytes)
       IN \E n \in 1..Len(block.transfers) :
            block.transfers[n].peer = p /\ IsBad(block.transfers[n], current)}

\* The orders a std::set of pointers can be walked in.
Orderings(S) ==
  {o \in [1..Cardinality(S) -> S] :
     \A a, b \in 1..Cardinality(S) : a # b => o[a] # o[b]}

\* The pruning of m_completedList that keeps only what the call appended.
PruneKeepNewest(list, t) ==
  IF list[1].time + 60 < t
  THEN SubSeq(list, SetMin({k \in 1..Len(list) : t <= list[k].time}
                             \cup {Len(list) + 1}), Len(list))
  ELSE list

\* The pruning of m_completedList that never drops anything.
PruneNever(list, t) == list

\* The pruning of m_completedList at clock reading t: if the front is more
\* than 60 minutes old, erase up to the first entry no older than 30 minutes.
Prune(list, t) ==
  IF list[1].time + 60 < t
  THEN SubSeq(list, SetMin({k \in 1..Len(list) : t - 30 <= list[k].time}
                             \cup {Len(list) + 1}), Len(list))
  ELSE list

\* hash_succeeded(index, chunk)
HashSucceeded(index) ==
  /\ TLAlive
  /\ LET k == Find(transferList, index)
     IN IF k = Len(transferList)
        THEN \* *end() is dereferenced
             /\ TLDone("hash_succeeded", "undefined", <<>>)
             /\ UNCHANGED <<transferList, completedList, succeededCount>>
        ELSE IF ~AllFinished(transferList[k + 1])
        THEN /\ TLDone("hash_succeeded", "internal_error", <<>>)
             /\ UNCHANGED <<transferList, completedList, succeededCount>>
        ELSE LET bl == transferList[k + 1]
                 badPeers == IF bl.failed # 0 THEN MarkFailedPeers(bl) ELSE {}
             IN /\ completedList' =
                     Prune(Append(completedList, [time |-> now, index |-> index]), now)
                /\ succeededCount' = succeededCount + 1
                /\ transferList' = EraseItr(transferList, k).list
                /\ \E o \in Orderings(badPeers) :
                     TLDone("hash_succeeded", "ok",
                            [n \in 1..Len(o) |-> Event("corrupt", o[n])])
  /\ UNCHANGED <<failedCount, now, rmVars, netVars>>

(***************************************************************************)
(* SocketStream                                                            *)
(*                                                                         *)
(* read_stream and write_stream return the byte count of the underlying    *)
(* call, 0 when the peer closed, a negative value on an error, which       *)
(* errno then names.  An outcome is what the caller sees: a returned byte  *)
(* count or a thrown exception.                                            *)
(***************************************************************************)
\* rak::error_number::is_blocked_momentary / is_closed / is_blocked_prolonged
IsBlockedMomentary(e) == e \in {"EAGAIN", "EWOULDBLOCK"}

IsClosed(e) == e \in {"ECONNRESET", "EPIPE"}

IsBlockedProlonged(e) == e \in {"ENOBUFS"}

Returns(r) == [kind |-> "return", bytes |-> r, errno |-> "none"]

Throws(kind) == [kind |-> kind, bytes |-> 0, errno |-> "none"]

ThrowsConnectionError(e) == [kind |-> "connection_error", bytes |-> 0, errno |-> e]

\* read_stream_throws without its test for r == 0.
ReadOutcomeZeroReturned(r, e) ==
  IF r < 0
  THEN IF IsBlockedMomentary(e) THEN Returns(0)
       ELSE IF IsClosed(e) THEN Throws("close_connection")
       ELSE IF IsBlockedProlonged(e) THEN Throws("blocked_connection")
       ELSE ThrowsConnectionError(e)
  ELSE Returns(r)

\* read_stream_throws, given the result r of read_stream and the errno e
\* it left.
ReadOutcome(r, e) ==
  IF r = 0 THEN Throws("close_connection")
  ELSE IF r < 0
  THEN IF IsBlockedMomentary(e) THEN Returns(0)
       ELSE IF IsClosed(e) THEN Throws("close_connection")
       ELSE IF IsBlockedProlonged(e) THEN Throws("blocked_connection")
       ELSE ThrowsConnectionError(e)
  ELSE Returns(r)

\* write_stream_throws, given the result r of write_stream and the errno e
\* it left.
WriteOutcome(r, e) ==
  IF r = 0 THEN Throws("close_connection")
  ELSE IF r < 0
  THEN IF IsBlockedMomentary(e) THEN Returns(0)
       ELSE IF IsClosed(e) THEN Throws("close_connection")
       ELSE IF IsBlockedProlonged(e) THEN Throws("blocked_connection")
       ELSE ThrowsConnectionError(e)
  ELSE Returns(r)

InitStream ==
  stream = [op |-> "init", length |-> 0, r |-> 0, errno |-> "none",
            outcome |-> Throws("none")]

\* read_stream_throws(buf, length): read_stream transfers r <= length bytes
\* or fails with r = -1, and errno holds e.
ReadStreamThrows(length, r, e) ==
  /\ r <= length
  /\ stream' = [op |-> "read", length |-> length, r |-> r, errno |-> e,
                outcome |-> ReadOutcome(r, e)]
  /\ UNCHANGED <<rmVars, tlVars, probe, trkVars, udpVars>>

\* write_stream_throws(buf, length)
WriteStreamThrows(length, r, e) ==
  /\ r <= length
  /\ stream' = [op |-> "write", length |-> length, r |-> r, errno |-> e,
                outcome |-> WriteOutcome(r, e)]
  /\ UNCHANGED <<rmVars, tlVars, probe, trkVars, udpVars>>

(***************************************************************************)
(* TrackerList::find_next_to_request                                       *)
(*                                                                         *)
(* What the function reads of a tracker: can_request_state(),              *)
(* failed_counter(), failed_time_next() and success_time_next().  A        *)
(* position is a 0-based offset into the list, Len(ts) standing for end(). *)
(***************************************************************************)
TrackerStates ==
  [canRequest : BOOLEAN, failedCounter : FailedCounters,
   failedTimeNext : Times, successTimeNext : Times]

\* The lists of at most MaxTrackers trackers.
TrackerLists == UNION {[1..n -> TrackerStates] : n \in 0..MaxTrackers}

\* std::find_if(itr, end(), can_request_state)
FindCanRequest(ts, itr) ==
  SetMin({k \in itr..(Len(ts) - 1) : ts[k + 1].canRequest} \cup {Len(ts)})

\* The loop with a healthy tracker superseding on <= instead of <.
RECURSIVE WalkSupersedeOnTie(_, _, _)
WalkSupersedeOnTie(ts, itr, preferred) ==
  IF itr + 1 = Len(ts) THEN preferred
  ELSE LET t == ts[itr + 2]
           p == ts[preferred + 1]
       IN IF ~t.canRequest THEN WalkSupersedeOnTie(ts, itr + 1, preferred)
          ELSE IF t.failedCounter # 0
          THEN WalkSupersedeOnTie(ts, itr + 1,
                                  IF t.failedTimeNext < p.failedTimeNext
                                  THEN itr + 1 ELSE preferred)
          ELSE IF t.successTimeNext <= p.failedTimeNext THEN itr + 1 ELSE preferred

\* while (++itr != end()) { ... }: the loop of find_next_to_request, from
\* the position itr it has reached with the choice preferred.
RECURSIVE Walk(_, _, _)
Walk(ts, itr, preferred) ==
  IF itr + 1 = Len(ts) THEN preferred
  ELSE LET t == ts[itr + 2]
           p == ts[preferred + 1]
       IN IF ~t.canRequest THEN Walk(ts, itr + 1, preferred)
          ELSE IF t.failedCounter # 0
          THEN Walk(ts, itr + 1,
                    IF t.failedTimeNext < p.failedTimeNext THEN itr + 1 ELSE preferred)
          ELSE IF t.successTimeNext < p.failedTimeNext THEN itr + 1 ELSE preferred

FindNextToRequest(ts, itr) ==
  LET preferred == FindCanRequest(ts, itr)
  IN IF preferred = Len(ts) \/ ts[preferred + 1].failedCounter = 0
     THEN preferred
     ELSE Walk(ts, preferred, preferred)

NoResult == 0 - 1

InitProbe == probe = [trackers |-> <<>>, iter |-> 0, result |-> NoResult]

\* Any list of trackers in any states, and any iterator into it.
InitProbeAny ==
  \E ts \in TrackerLists, itr \in 0..MaxTrackers :
    /\ itr <= Len(ts)
    /\ probe = [trackers |-> ts, iter |-> itr, result |-> NoResult]

\* find_next_to_request(itr)
FindNextToRequestCall ==
  /\ probe.result = NoResult
  /\ probe' = [probe EXCEPT !.result = FindNextToRequest(probe.trackers, probe.iter)]
  /\ UNCHANGED <<rmVars, tlVars, stream, trkVars, udpVars>>

(***************************************************************************)
(* TrackerList                                                             *)
(*                                                                         *)
(* The list holds Tracker pointers; an element is shown as the Tracker it  *)
(* points to: [id, group, usable, busy, latestEvent, requests, success,    *)
(* failed, scrapes], where id tells the objects apart.  A transport with   *)
(* a request in flight is busy; it closes itself, so that it is no longer  *)
(* busy, before it reports the request's end to the list.                  *)
(***************************************************************************)
NewTracker(id, group, usable) ==
  [id |-> id, group |-> group, usable |-> usable, busy |-> FALSE,
   latestEvent |-> "NONE", requests |-> 0, success |-> 0, failed |-> 0,
   scrapes |-> 0]

\* begin_group(group): the first tracker whose group is not below it
BeginGroup(ts, group) ==
  SetMin({k \in 0..(Len(ts) - 1) : group <= ts[k + 1].group} \cup {Len(ts)})

\* end_group(group): the first tracker whose group is above it
EndGroup(ts, group) ==
  SetMin({k \in 0..(Len(ts) - 1) : group < ts[k + 1].group} \cup {Len(ts)})

\* std::iter_swap / std::swap of two elements
Swap(ts, a, b) == [ts EXCEPT ![a + 1] = ts[b + 1], ![b + 1] = ts[a + 1]]

\* promote(itr) with the head of the list taken for the head of the group.
PromoteToFront(ts, itr) ==
  IF ts = <<>>
  THEN [res |-> "internal_error", list |-> ts, itr |-> itr]
  ELSE [res |-> "ok", list |-> Swap(ts, 0, itr), itr |-> 0]

\* promote(itr)
Promote(ts, itr) ==
  LET first == BeginGroup(ts, ts[itr + 1].group)
  IN IF first = Len(ts)
     THEN [res |-> "internal_error", list |-> ts, itr |-> itr]
     ELSE [res |-> "ok", list |-> Swap(ts, first, itr), itr |-> first]

\* The loop of cycle_group without its test of the group: it runs to the
\* end of the list.
RECURSIVE CycleLoopToEnd(_, _, _, _)
CycleLoopToEnd(ts, itr, prev, group) ==
  IF itr + 1 # Len(ts)
  THEN CycleLoopToEnd(Swap(ts, itr + 1, prev), itr + 1, itr + 1, group)
  ELSE ts

\* while (++itr != end() && (*itr)->group() == group) { swap; prev = itr; }
RECURSIVE CycleLoop(_, _, _, _)
CycleLoop(ts, itr, prev, group) ==
  IF itr + 1 # Len(ts) /\ ts[itr + 2].group = group
  THEN CycleLoop(Swap(ts, itr + 1, prev), itr + 1, itr + 1, group)
  ELSE ts

\* cycle_group(group)
CycleGroup(ts, group) ==
  LET itr == BeginGroup(ts, group)
  IN IF itr = Len(ts) \/ ts[itr + 1].group # group
     THEN ts
     ELSE CycleLoop(ts, itr, itr, group)

TotalRequests == SumSeq([k \in 1..Len(trackers) |-> trackers[k].requests])

TrkDone(op, res, calls) == trk' = [op |-> op, res |-> res, calls |-> calls]

InitTrk ==
  /\ trackers = <<>>
  /\ trk = [op |-> "init", res |-> "ok", calls |-> <<>>]

\* insert(group, tracker) of a new tracker
TrkInsert(ids, group, usable) ==
  /\ Len(trackers) + 1 \in ids
  /\ trackers' = InsertAt(trackers, EndGroup(trackers, group),
                          NewTracker(Len(trackers) + 1, group, usable))
  /\ TrkDone("insert", "ok", <<"tracker_enabled">>)
  /\ UNCHANGED <<rmVars, tlVars, stream, probe, udpVars>>

\* send_state with the test of is_busy() left out.
DispatchesWhenBusy(t, new_event) == t.usable /\ new_event # "SCRAPE"

\* Does send_state(tracker, new_event) go on to tracker->send_state?
Dispatches(t, new_event) ==
  /\ ~(~t.usable \/ new_event = "SCRAPE")
  /\ ~(t.busy /\ t.latestEvent # "SCRAPE")

\* send_state(tracker, new_event) for the tracker at offset k
TrkSendState(k, new_event) ==
  /\ k < Len(trackers)
  /\ LET t == trackers[k + 1]
     IN IF ~Dispatches(t, new_event)
        THEN /\ TrkDone("send_state", "ok", <<>>)
             /\ UNCHANGED trackers
        ELSE /\ trackers' = [trackers EXCEPT ![k + 1] =
                               [t EXCEPT !.busy = TRUE, !.latestEvent = new_event,
                                         !.requests = @ + 1]]
             /\ TrkDone("send_state", "ok",
                        IF t.busy THEN <<"close", "send_state">> ELSE <<"send_state">>)
  /\ UNCHANGED <<rmVars, tlVars, stream, probe, udpVars>>

\* send_scrape(tracker); recent: the last scrape is less than ten minutes old
TrkSendScrape(k, recent) ==
  /\ k < Len(trackers)
  /\ LET t == trackers[k + 1]
     IN IF t.busy \/ ~t.usable \/ recent
        THEN /\ TrkDone("send_scrape", "ok", <<>>)
             /\ UNCHANGED trackers
        ELSE /\ trackers' = [trackers EXCEPT ![k + 1] =
                               [t EXCEPT !.busy = TRUE, !.latestEvent = "SCRAPE",
                                         !.requests = @ + 1]]
             /\ TrkDone("send_scrape", "ok", <<"send_scrape">>)
  /\ UNCHANGED <<rmVars, tlVars, stream, probe, udpVars>>

\* The transport of the tracker at offset k ends its request: it closes
\* itself if closeFirst, and the list is then told.
Closed(ts, k, closeFirst) ==
  [ts EXCEPT ![k + 1].busy = IF closeFirst THEN FALSE ELSE @]

\* receive_success(tb, l)
TrkReceiveSuccess(k, closeFirst) ==
  /\ k < Len(trackers)
  /\ trackers[k + 1].busy /\ trackers[k + 1].latestEvent # "SCRAPE"
  /\ LET ts == Closed(trackers, k, closeFirst)
         p == Promote(ts, k)
     IN IF ts[k + 1].busy \/ p.res # "ok"
        THEN /\ trackers' = ts
             /\ TrkDone("receive_success", "internal_error", <<>>)
        ELSE /\ trackers' = [p.list EXCEPT ![p.itr + 1].success = @ + 1,
                                           ![p.itr + 1].failed = 0]
             /\ TrkDone("receive_success", "ok", <<"success">>)
  /\ UNCHANGED <<rmVars, tlVars, stream, probe, udpVars>>

\* receive_failed(tb, msg)
TrkReceiveFailed(k, closeFirst) ==
  /\ k < Len(trackers)
  /\ trackers[k + 1].busy /\ trackers[k + 1].latestEvent # "SCRAPE"
  /\ LET ts == Closed(trackers, k, closeFirst)
     IN IF ts[k + 1].busy
        THEN /\ trackers' = ts
             /\ TrkDone("receive_failed", "internal_error", <<>>)
        ELSE /\ trackers' = [ts EXCEPT ![k + 1].failed = @ + 1]
             /\ TrkDone("receive_failed", "ok", <<"failed">>)
  /\ UNCHANGED <<rmVars, tlVars, stream, probe, udpVars>>

\* receive_scrape_success(tb)
TrkReceiveScrapeSuccess(k, closeFirst) ==
  /\ k < Len(trackers)
  /\ trackers[k + 1].busy /\ trackers[k + 1].latestEvent = "SCRAPE"
  /\ LET ts == Closed(trackers, k, closeFirst)
     IN IF ts[k + 1].busy
        THEN /\ trackers' = ts
             /\ TrkDone("receive_scrape_success", "internal_error", <<>>)
        ELSE /\ trackers' = [ts EXCEPT ![k + 1].scrapes = @ + 1]
             /\ TrkDone("receive_scrape_success", "ok", <<"scrape_success">>)
  /\ UNCHANGED <<rmVars, tlVars, stream, probe, udpVars>>

\* cycle_group(group)
TrkCycleGroup(group) ==
  /\ trackers' = CycleGroup(trackers, group)
  /\ TrkDone("cycle_group", "ok", <<>>)
  /\ UNCHANGED <<rmVars, tlVars, stream, probe, udpVars>>

(***************************************************************************)
(* TrackerHttp                                                             *)
(*                                                                         *)
(* An HTTP tracker in the list is shown with the members of Tracker that   *)
(* a response writes: the intervals, the tracker id, the scrape totals     *)
(* and the time stamps.  is_busy() is "m_data is not null".  A response    *)
(* is shown as the bencoded object it parses to: root tells whether the    *)
(* stream parsed and whether its root is a map, and a key that the map     *)
(* does not hold with the type the code asks for is Absent.                *)
(***************************************************************************)
\* A key the map does not hold; a held value v is <<v>>
Absent == <<>>

\* peers or files not held
NoKey == "absent"

Max(a, b) == IF a > b THEN a ELSE b

default_min_interval == 600
min_min_interval == 300
max_min_interval == 14400
default_normal_interval == 1800
min_normal_interval == 600
max_normal_interval == 28800

\* Tracker::set_normal_interval
SetNormalInterval(t, v) ==
  [t EXCEPT !.normalInterval = Min(Max(min_normal_interval, v), max_normal_interval)]

\* Tracker::set_min_interval
SetMinInterval(t, v) ==
  [t EXCEPT !.minInterval = Min(Max(min_min_interval, v), max_min_interval)]

\* A TrackerHttp as constructed, not yet in the list
NewHttpTracker(id, group) ==
  NewTracker(id, group, TRUE) @@
  [normalInterval |-> default_normal_interval, minInterval |-> default_min_interval,
   trackerId |-> Absent, scrapeComplete |-> 0, scrapeIncomplete |-> 0,
   scrapeDownloaded |-> 0, scrapeTimeLast |-> 0, successTimeLast |-> 0,
   failedTimeLast |-> 0]

\* The bencoded maps a tracker answers an announce with; peers6 is only
\* looked at here when peers is not held
AnnounceMaps ==
  {b \in [root : {"map"}, failure : BOOLEAN, interval : {Absent, <<900>>},
          minInterval : {Absent, <<450>>}, trackerId : {Absent, <<"t1">>},
          complete : {Absent, <<5>>}, incomplete : {Absent, <<0 - 3>>},
          downloaded : {Absent, <<7>>}, peers : {NoKey, "compact", "malformed"},
          peers6 : BOOLEAN, files : {NoKey}] : b.peers6 => b.peers = NoKey}

\* The bencoded maps a tracker answers a scrape with; complete, incomplete
\* and downloaded are then the entries of the map files holds for the
\* info hash
ScrapeMaps ==
  [root : {"map"}, failure : BOOLEAN, interval : {Absent}, minInterval : {Absent},
   trackerId : {Absent}, complete : {Absent, <<5>>}, incomplete : {Absent, <<0 - 3>>},
   downloaded : {Absent, <<7>>}, peers : {NoKey}, peers6 : {FALSE},
   files : {NoKey, "no_hash", "stats"}]

ResponseMaps == AnnounceMaps \cup ScrapeMaps

\* A body that is not bencoded, and one whose root is a list
NoMap(root) ==
  [root |-> root, failure |-> FALSE, interval |-> Absent, minInterval |-> Absent,
   trackerId |-> Absent, complete |-> Absent, incomplete |-> Absent,
   downloaded |-> Absent, peers |-> NoKey, peers6 |-> FALSE, files |-> NoKey]

Responses == ResponseMaps \cup {NoMap("garbage"), NoMap("list")}

\* The part process_failure and process_success share: tracker id and
\* scrape fields
AbsorbFields(t, b, time) ==
  LET t1 == IF b.trackerId # Absent THEN [t EXCEPT !.trackerId = b.trackerId] ELSE t
      t2 == IF b.complete # Absent /\ b.incomplete # Absent
            THEN [t1 EXCEPT !.scrapeComplete = Max(b.complete[1], 0),
                            !.scrapeIncomplete = Max(b.incomplete[1], 0),
                            !.scrapeTimeLast = time]
            ELSE t1
  IN IF b.downloaded # Absent
     THEN [t2 EXCEPT !.scrapeDownloaded = Max(b.downloaded[1], 0)]
     ELSE t2

\* process_failure(object)
ProcessFailure(t, b, time) ==
  LET t1 == IF b.interval # Absent THEN SetNormalInterval(t, b.interval[1]) ELSE t
      t2 == IF b.minInterval # Absent THEN SetMinInterval(t1, b.minInterval[1]) ELSE t1
  IN AbsorbFields(t2, b, time)

\* The two interval statements of process_success: the else branch of the
\* second one calls set_normal_interval.
SuccessIntervals(t, b) ==
  LET t1 == IF b.interval # Absent
            THEN SetNormalInterval(t, b.interval[1])
            ELSE SetNormalInterval(t, default_normal_interval)
  IN IF b.minInterval # Absent
     THEN SetMinInterval(t1, b.minInterval[1])
     ELSE SetNormalInterval(t1, default_min_interval)

\* TrackerList::receive_success(tb, l) at cachedTime = time
ListReceiveSuccess(ts, k, time) ==
  LET p == Promote(ts, k)
  IN IF ts[k + 1].busy \/ p.res # "ok"
     THEN [res |-> "internal_error", list |-> ts, calls |-> <<>>]
     ELSE [res |-> "ok",
           list |-> [p.list EXCEPT ![p.itr + 1].successTimeLast = time,
                                   ![p.itr + 1].success = @ + 1,
                                   ![p.itr + 1].failed = 0],
           calls |-> <<"success">>]

\* receive_failed with the counter left alone.
ListReceiveFailedUncounted(ts, k, time) ==
  IF ts[k + 1].busy
  THEN [res |-> "internal_error", list |-> ts, calls |-> <<>>]
  ELSE [res |-> "ok",
        list |-> [ts EXCEPT ![k + 1].failedTimeLast = time],
        calls |-> <<"failed">>]

\* TrackerList::receive_failed(tb, msg) at cachedTime = time
ListReceiveFailed(ts, k, time) ==
  IF ts[k + 1].busy
  THEN [res |-> "internal_error", list |-> ts, calls |-> <<>>]
  ELSE [res |-> "ok",
        list |-> [ts EXCEPT ![k + 1].failedTimeLast = time,
                            ![k + 1].failed = @ + 1],
        calls |-> <<"failed">>]

\* TrackerList::receive_scrape_success(tb) at cachedTime = time
ListReceiveScrapeSuccess(ts, k, time) ==
  IF ts[k + 1].busy
  THEN [res |-> "internal_error", list |-> ts, calls |-> <<>>]
  ELSE [res |-> "ok",
        list |-> [ts EXCEPT ![k + 1].scrapeTimeLast = time,
                            ![k + 1].scrapes = @ + 1],
        calls |-> <<"scrape_success">>]

\* TrackerList::receive_scrape_failed(tb, msg)
ListReceiveScrapeFailed(ts, k) ==
  IF ts[k + 1].busy
  THEN [res |-> "internal_error", list |-> ts, calls |-> <<>>]
  ELSE [res |-> "ok", list |-> ts, calls |-> <<"scrape_failed">>]

\* TrackerHttp::receive_failed(msg): close_directly(), then the list is told.
HttpReceiveFailed(ts, k, time) ==
  LET closed == [ts EXCEPT ![k + 1].busy = FALSE]
  IN IF ts[k + 1].latestEvent = "SCRAPE"
     THEN ListReceiveScrapeFailed(closed, k)
     ELSE ListReceiveFailed(closed, k, time)

\* TrackerHttp::process_success(object)
ProcessSuccess(ts, k, b, time) ==
  LET t == AbsorbFields(SuccessIntervals(ts[k + 1], b), b, time)
      absorbed == [ts EXCEPT ![k + 1] = t]
  IN IF b.peers = NoKey /\ ~b.peers6
     THEN HttpReceiveFailed(absorbed, k, time)
     ELSE IF b.peers = "malformed"
     THEN HttpReceiveFailed(absorbed, k, time)
     ELSE ListReceiveSuccess([absorbed EXCEPT ![k + 1].busy = FALSE], k, time)

\* TrackerHttp::process_scrape(object)
ProcessScrape(ts, k, b, time) ==
  IF b.files # "stats"
  THEN HttpReceiveFailed(ts, k, time)
  ELSE LET t  == ts[k + 1]
           t1 == IF b.complete # Absent
                 THEN [t EXCEPT !.scrapeComplete = Max(b.complete[1], 0)] ELSE t
           t2 == IF b.incomplete # Absent
                 THEN [t1 EXCEPT !.scrapeIncomplete = Max(b.incomplete[1], 0)] ELSE t1
           t3 == IF b.downloaded # Absent
                 THEN [t2 EXCEPT !.scrapeDownloaded = Max(b.downloaded[1], 0)] ELSE t2
       IN ListReceiveScrapeSuccess([ts EXCEPT ![k + 1] = [t3 EXCEPT !.busy = FALSE]],
                                   k, time)

\* What TrackerHttp::receive_done() makes of the response b
ReceiveDoneResult(ts, k, b, time) ==
  IF ~ts[k + 1].busy
  THEN [res |-> "internal_error", list |-> ts, calls |-> <<>>]
  ELSE IF b.root # "map"
  THEN HttpReceiveFailed(ts, k, time)
  ELSE IF b.failure
  THEN HttpReceiveFailed(IF ts[k + 1].latestEvent # "SCRAPE"
                         THEN [ts EXCEPT ![k + 1] = ProcessFailure(@, b, time)]
                         ELSE ts,
                         k, time)
  ELSE IF ts[k + 1].latestEvent = "SCRAPE"
  THEN ProcessScrape(ts, k, b, time)
  ELSE ProcessSuccess(ts, k, b, time)

\* insert(group, new TrackerHttp)
HttpInsert(ids, group) ==
  /\ Len(trackers) + 1 \in ids
  /\ trackers' = InsertAt(trackers, EndGroup(trackers, group),
                          NewHttpTracker(Len(trackers) + 1, group))
  /\ TrkDone("insert", "ok", <<"tracker_enabled">>)
  /\ UNCHANGED <<rmVars, tlVars, stream, probe, udpVars>>

\* signal_done of the Http object of the tracker at offset k: receive_done()
HttpReceiveDone(k, b, time) ==
  /\ k < Len(trackers)
  /\ trackers[k + 1].busy
  /\ LET r == ReceiveDoneResult(trackers, k, b, time)
     IN /\ trackers' = r.list
        /\ TrkDone("receive_done", r.res, r.calls)
  /\ UNCHANGED <<rmVars, tlVars, stream, probe, udpVars>>

\* signal_failed of the Http object of the tracker at offset k: both
\* intervals are zeroed and receive_failed(msg) runs
HttpSignalFailed(k, time) ==
  /\ k < Len(trackers)
  /\ trackers[k + 1].busy
  /\ LET r == HttpReceiveFailed([trackers EXCEPT ![k + 1].normalInterval = 0,
                                                 ![k + 1].minInterval = 0],
                                k, time)
     IN /\ trackers' = r.list
        /\ TrkDone("signal_failed", r.res, r.calls)
  /\ UNCHANGED <<rmVars, tlVars, stream, probe, udpVars>>

(***************************************************************************)
(* TrackerUdp                                                              *)
(***************************************************************************)
\* The protocol buffers store integers in network byte order: the n bytes of
\* v, most significant first.  A negative v gives its two's complement image.
RECURSIVE Be(_, _)
Be(v, n) ==
  IF n = 0 THEN <<>> ELSE Be(v \div 256, n - 1) \o <<v % 256>>

\* The unsigned integer held by a run of bytes, most significant first.
RECURSIVE BeValue(_)
BeValue(bytes) ==
  IF bytes = <<>> THEN 0
  ELSE 256 * BeValue(SubSeq(bytes, 1, Len(bytes) - 1)) + bytes[Len(bytes)]

\* A 64 bit member is kept as its eight byte image.
U64(v) == Be(v, 8)

\* 0x0000041727101980
MagicConnectionId == <<0, 0, 4, 23, 39, 16, 25, 128>>

Write64(buf, image) == buf \o image
Write32(buf, v) == buf \o Be(v, 4)
Write32N(buf, bytes) == buf \o bytes
Write16AsWrite32(buf, v) == buf \o Be(v, 4)
Write16(buf, v) == buf \o Be(v, 2)
WriteRange(buf, bytes) == buf \o bytes
Read32(buf, position) == BeValue(SubSeq(buf, position + 1, position + 4))
Read64(buf, position) == SubSeq(buf, position + 1, position + 8)

\* info->hash() and info->local_id(): twenty bytes each.
InfoHash == [i \in 1..20 |-> i]
LocalId == [i \in 1..20 |-> 32 + i]

\* What prepare_announce_input reads from the download and the connection
\* manager: the adjusted counters, the local address (its four bytes in
\* network order when the family is af_inet), key, numwant, listen port.
Infos ==
  [completed : {100}, left : {200, 70000}, uploaded : {50},
   inet : BOOLEAN, address_n : {<<192, 168, 0, 1>>},
   key : {1588444911}, numwant : {0 - 1, 30}, port : {6881}]

\* One download's values, for the runs that are not about the announce.
PlainInfos ==
  {info \in Infos : info.inet /\ info.left = 200 /\ info.numwant = 30}

\* A tracker's datagram: action, transaction id, then eighteen more bytes.
\* Read as a connect reply the first eight of them are the connection id,
\* read as an announce reply they are interval, leechers, seeders and one
\* compact peer, read as an error reply they are the message.
Reply(action, transaction_id, c) ==
  <<0, 0, 0, action, 0, 0, 0, transaction_id, 0, 0, 7, 8, 0, 0, 0, c,
    0, 0, 0, 4, 10, 0, 0, 1, 26, 225>>

\* The ghost record `wire` counts what the socket and the timer did for the
\* current datagram: count datagrams written, timeouts fired, and missed
\* timeouts that fired while the previous write was still pending; sends
\* counts the send_state calls, cancelled names the phase in which the last
\* close() or disown() since the last send_state found the request, and
\* error names an exception that left the handler; destroyed tells that the
\* destructor has run.
Constructed(urlOk, udp_tries) ==
  /\ udp = [urlOk |-> urlOk, udpTries |-> udp_tries, fd |-> FALSE, slot |-> 0,
            latestEvent |-> 0, sendState |-> 0, action |-> 0,
            connectionId |-> U64(0), transactionId |-> 0, tries |-> 0,
            timer |-> FALSE, pollRead |-> FALSE, pollWrite |-> FALSE,
            writeBuffer |-> <<>>, normalInterval |-> 0,
            scrapeIncomplete |-> 0, scrapeComplete |-> 0]
  /\ resolver = <<>>
  /\ wire = [count |-> 0, missed |-> 0, timeouts |-> 0,
             sends |-> 0, cancelled |-> "no", error |-> "none",
             destroyed |-> FALSE]
  /\ parent = <<>>

InitUdp == Constructed(TRUE, MaxTries)

\* A tracker with any url, in a download with any udp_tries setting.
InitUdpAny ==
  \E udp_tries \in 1..MaxTries, urlOk \in BOOLEAN :
    Constructed(urlOk, udp_tries)

NewDatagram(w) == [w EXCEPT !.count = 0, !.missed = 0, !.timeouts = 0]

\* A close that leaves the socket open.
CloseDirectlyNot(u) == u

CloseDirectly(u) ==
  IF ~u.fd THEN u
  ELSE [u EXCEPT !.writeBuffer = <<>>, !.timer = FALSE, !.pollRead = FALSE,
                 !.pollWrite = FALSE, !.fd = FALSE]

ParentReceiveFailed(p, msg) == Append(p, [call |-> "receive_failed", msg |-> msg])
ParentReceiveSuccess(p, peers) ==
  Append(p, [call |-> "receive_success", msg |-> peers])

\* A pending slot that is left as it is.
ClearSlotNot(r, slot) == r

\* *m_slot_resolver = resolver_type(); m_slot_resolver = nullptr;
ClearSlot(r, slot) ==
  IF slot = 0 THEN r ELSE [r EXCEPT ![slot] = "cleared"]

UdpSendState(state) ==
  /\ wire.sends + 1 \in SendNumbers
  /\ LET closed == [CloseDirectly(udp) EXCEPT !.latestEvent = state] IN
       IF ~udp.urlOk
       THEN /\ udp' = closed
            /\ parent' = ParentReceiveFailed(parent,
                              "could not parse hostname or port")
            /\ resolver' = resolver
       ELSE /\ resolver' = Append(ClearSlot(resolver, udp.slot), "pending")
            /\ udp' = [closed EXCEPT !.sendState = state,
                                     !.slot = Len(resolver) + 1]
            /\ parent' = parent
  /\ wire' = [NewDatagram(wire) EXCEPT !.sends = @ + 1, !.cancelled = "no"]
  /\ UNCHANGED <<rmVars, tlVars, stream, probe, trkVars>>

PrepareConnectInput(u, random) ==
  [u EXCEPT !.connectionId = MagicConnectionId, !.action = 0,
            !.transactionId = random,
            !.writeBuffer =
               Write32(Write32(Write64(<<>>, MagicConnectionId), 0), random)]

\* An announce request that is sent under the connect request's
\* connection id.
PrepareAnnounceInputMagic(u, random, info) ==
  LET local_addr == IF info.inet THEN info.address_n ELSE Be(0, 4)
      b1 == Write32(Write32(Write64(<<>>, MagicConnectionId), 1), random)
      b2 == WriteRange(WriteRange(b1, InfoHash), LocalId)
      b3 == Write64(Write64(Write64(b2, U64(info.completed)),
                            U64(info.left)), U64(info.uploaded))
      b4 == Write32N(Write32(b3, u.sendState), local_addr)
      b5 == Write16(Write32(Write32(b4, info.key), info.numwant), info.port)
  IN [u EXCEPT !.action = 1, !.transactionId = random, !.writeBuffer = b5]

PrepareAnnounceInput(u, random, info) ==
  LET local_addr == IF info.inet THEN info.address_n ELSE Be(0, 4)
      b1 == Write32(Write32(Write64(<<>>, u.connectionId), 1), random)
      b2 == WriteRange(WriteRange(b1, InfoHash), LocalId)
      b3 == Write64(Write64(Write64(b2, U64(info.completed)),
                            U64(info.left)), U64(info.uploaded))
      b4 == Write32N(Write32(b3, u.sendState), local_addr)
      b5 == Write16(Write32(Write32(b4, info.key), info.numwant), info.port)
  IN [u EXCEPT !.action = 1, !.transactionId = random, !.writeBuffer = b5]

\* The resolver calls slot i, which runs start_announce; a slot that was
\* cleared is never called.  The outcome says how far start_announce gets.
StartOutcomes == {"null", "invalid", "open_fails", "bind_fails", "ok"}

StartFailure(outcome) ==
  CASE outcome = "null" -> "could not resolve hostname"
    [] outcome = "invalid" -> "invalid tracker address"
    [] outcome = "open_fails" -> "could not open UDP socket"
    [] outcome = "bind_fails" -> "failed to bind socket to udp address"

StartAnnounce(i, outcome, random) ==
  /\ i \in DOMAIN resolver
  /\ resolver[i] = "pending"
  /\ resolver' = [ClearSlot(resolver, udp.slot) EXCEPT ![i] = "done"]
  /\ IF outcome # "ok"
     THEN /\ udp' = [CloseDirectly(udp) EXCEPT !.slot = 0]
          /\ parent' = ParentReceiveFailed(parent, StartFailure(outcome))
          /\ wire' = wire
     ELSE /\ udp' = [PrepareConnectInput(udp, random) EXCEPT
                       !.slot = 0, !.fd = TRUE, !.pollRead = TRUE,
                       !.pollWrite = TRUE, !.tries = udp.udpTries,
                       !.timer = TRUE]
          /\ parent' = parent
          /\ wire' = NewDatagram(wire)
  /\ UNCHANGED <<rmVars, tlVars, stream, probe, trkVars>>

\* ~TrackerUdp()
UdpDestroy ==
  /\ ~wire.destroyed
  /\ resolver' = ClearSlot(resolver, udp.slot)
  /\ udp' = [CloseDirectly(udp) EXCEPT !.slot = 0]
  /\ wire' = [wire EXCEPT !.destroyed = TRUE]
  /\ UNCHANGED <<rmVars, tlVars, stream, probe, trkVars, parent>>

\* The phase of the request in flight: it has its socket, or it awaits the
\* resolver, or there is none.
Phase(u) ==
  IF u.fd THEN "socket" ELSE IF u.slot # 0 THEN "resolving" ELSE "idle"

Cancelled(u, before) == IF Phase(u) = "idle" THEN before ELSE Phase(u)

UdpClose ==
  /\ udp' = IF ~udp.fd THEN udp ELSE CloseDirectly(udp)
  /\ wire' = [wire EXCEPT !.cancelled = Cancelled(udp, @)]
  /\ UNCHANGED <<rmVars, tlVars, stream, probe, trkVars, resolver, parent>>

UdpDisown ==
  /\ udp' = IF ~udp.fd THEN udp ELSE CloseDirectly(udp)
  /\ wire' = [wire EXCEPT !.cancelled = Cancelled(udp, @)]
  /\ UNCHANGED <<rmVars, tlVars, stream, probe, trkVars, resolver, parent>>

TriesExhaustedAfterUse(tries) == tries = 0
\* --m_tries == 0
TriesExhausted(tries) == tries - 1 = 0

\* The scheduler takes the task off the queue and calls its slot.
ReceiveTimeout ==
  /\ udp.timer
  /\ LET w == [wire EXCEPT !.timeouts = @ + 1,
                           !.missed = @ + (IF udp.pollWrite THEN 1 ELSE 0)]
         u == [udp EXCEPT !.timer = FALSE, !.tries = @ - 1]
     IN IF TriesExhausted(udp.tries)
        THEN /\ udp' = CloseDirectly(u)
             /\ parent' = ParentReceiveFailed(parent,
                               "unable to connect to UDP tracker")
             /\ wire' = w
        ELSE /\ udp' = [u EXCEPT !.timer = TRUE, !.pollWrite = TRUE]
             /\ parent' = parent
             /\ wire' = w
  /\ UNCHANGED <<rmVars, tlVars, stream, probe, trkVars, resolver>>

\* The poll reports the socket writable while it is in the write set.
EventWrite ==
  /\ udp.fd
  /\ udp.pollWrite
  /\ IF Len(udp.writeBuffer) = 0
     THEN /\ wire' = [wire EXCEPT !.error = "internal_error"]
          /\ udp' = udp
     ELSE /\ wire' = [wire EXCEPT !.count = @ + 1]
          /\ udp' = [udp EXCEPT !.pollWrite = FALSE]
  /\ UNCHANGED <<rmVars, tlVars, stream, probe, trkVars, resolver, parent>>

ProcessConnectOutputAnyId(buf, transaction_id) == Len(buf) >= 16
ProcessConnectOutput(buf, transaction_id) ==
  ~(Len(buf) < 16 \/ Read32(buf, 4) # transaction_id)

ProcessAnnounceOutput(buf, transaction_id) ==
  ~(Len(buf) < 20 \/ Read32(buf, 4) # transaction_id)

ProcessErrorOutput(buf, transaction_id) ==
  ~(Len(buf) < 8 \/ Read32(buf, 4) # transaction_id)

\* The compact peers of an announce reply: the whole six byte records after
\* the first twenty bytes.
AddressCount(buf) == ((Len(buf) - 20) - ((Len(buf) - 20) % 6)) \div 6

\* What event_read makes of the tracker u, the callbacks p delivered so far
\* and the counters w when read_datagram returns s and, for s >= 0, the
\* first s bytes of the datagram.
EventReadResult(u, p, w, s, datagram, random, info) ==
  LET buf == IF s < 0 THEN <<>> ELSE SubSeq(datagram, 1, s)
      ignored == [udp |-> u, parent |-> p, wire |-> w]
  IN IF s < 0 \/ s < 4 THEN ignored
     ELSE CASE Read32(buf, 0) = 0 ->
                 IF u.action # 0 \/ ~ProcessConnectOutput(buf, u.transactionId)
                 THEN ignored
                 ELSE LET a == PrepareAnnounceInput(
                                 [u EXCEPT !.connectionId = Read64(buf, 8)],
                                 random, info)
                      IN IF Len(a.writeBuffer) # 98
                         THEN [udp |-> a, parent |-> p,
                               wire |-> [w EXCEPT !.error = "internal_error"]]
                         ELSE [udp |-> [a EXCEPT !.timer = TRUE,
                                                 !.tries = u.udpTries,
                                                 !.pollWrite = TRUE],
                               parent |-> p, wire |-> NewDatagram(w)]
            [] Read32(buf, 0) = 1 ->
                 IF u.action # 1 \/ ~ProcessAnnounceOutput(buf, u.transactionId)
                 THEN ignored
                 ELSE [udp |-> CloseDirectly(
                                 [u EXCEPT
                                    !.normalInterval = Read32(buf, 8),
                                    !.scrapeIncomplete = Read32(buf, 12),
                                    !.scrapeComplete = Read32(buf, 16)]),
                       parent |-> ParentReceiveSuccess(p, AddressCount(buf)),
                       wire |-> w]
            [] Read32(buf, 0) = 3 ->
                 IF ~ProcessErrorOutput(buf, u.transactionId)
                 THEN ignored
                 ELSE [udp |-> CloseDirectly(u),
                       parent |-> ParentReceiveFailed(p,
                                       "received error message"),
                       wire |-> w]
            [] OTHER -> ignored

\* The poll reports the socket readable.
EventRead(s, datagram, random, info) ==
  /\ udp.fd
  /\ udp.pollRead
  /\ LET r == EventReadResult(udp, parent, wire, s, datagram, random, info)
     IN /\ udp' = r.udp
        /\ parent' = r.parent
        /\ wire' = r.wire
  /\ UNCHANGED <<rmVars, tlVars, stream, probe, trkVars, resolver>>

\* Time passes between two calls.
AdvanceClock(d) ==
  /\ now' = now + d
  /\ UNCHANGED <<transferList, completedList, succeededCount, failedCount, tl, rmVars, netVars>>

Init == InitRM /\ InitTL /\ InitStream /\ InitProbe /\ InitTrk /\ InitUdp

\* The registry of downloads and the group boundaries.
NextRM ==
  \/ \E n \in NameArgs(GroupNames) : PushGroup(n)
  \/ \E d \in Downloads, g \in GroupArgs, p \in Priorities : Insert(d, g, p)
  \/ \E d \in Downloads : Erase(d)
  \/ \E k \in 0..(Len(entries) - 1), g \in GroupArgs : SetGroup(k, g)
  \/ ReceiveTick

SpecRM == Init /\ [][NextRM]_vars

\* The unchoke accounting, over a smaller registry whose operations are
\* called with arguments they accept: new group names, existing groups,
\* registered downloads.
NextChoke ==
  \/ \E n \in FreshName(ChokeGroupNames) : PushGroup(n)
  \/ \E d \in ChokeDownloads, g \in 0..(Len(groups) - 1), p \in Priorities : Insert(d, g, p)
  \/ \E d \in ChokeDownloads \cap Registered : Erase(d)
  \/ \E k \in 0..(Len(entries) - 1), g \in 0..(Len(groups) - 1) : SetGroup(k, g)
  \/ \E m \in 0..MaxLimit : SetMaxUploadUnchoked(m)
  \/ \E m \in 0..MaxLimit : SetMaxDownloadUnchoked(m)
  \/ \E g \in 0..(Len(groups) - 1), dir \in Dirs, dr \in Steps, du \in Steps :
       QueueChange(g, dir, dr, du)
  \/ ReceiveTick

SpecChoke == Init /\ [][NextChoke]_vars

\* The settings and running totals, called with arguments inside and
\* outside their ranges, for one download that may be registered.
NextSettings ==
  \/ \E n \in FreshName(ChokeGroupNames) : PushGroup(n)
  \/ \E d \in ChokeDownloads, g \in 0..(Len(groups) - 1), p \in Priorities :
       Insert(d, g, p)
  \/ \E d \in ChokeDownloads, pri \in PriorityArgs : DownloadSetPriority(d, pri)
  \/ \E m \in LimitArgs : SetMaxUploadUnchoked(m)
  \/ \E m \in LimitArgs : SetMaxDownloadUnchoked(m)
  \/ \E num \in Deltas :
       currentlyUploadUnchoked + num <= MaxTotal /\ ReceiveUploadUnchoke(num)
  \/ \E num \in Deltas :
       currentlyDownloadUnchoked + num <= MaxTotal /\ ReceiveDownloadUnchoke(num)

SpecSettings == Init /\ [][NextSettings]_vars

\* The balance alone: a registry of one to three groups without downloads,
\* the queues of one direction holding any requested counts, none or all of
\* them unchoked, under any limit; then ticks.
BalanceNames == <<"a", "b", "c">>
Requested == {0, 1, 2, 3, 10, 50}
BalanceLimits == {0, 1, 4, 9, 62}
LoadedQueues == {q \in [req : Requested, unch : Requested] : q.unch \in {0, q.req}}

InitBalance ==
  /\ InitTL /\ InitStream /\ InitProbe /\ InitTrk /\ InitUdp
  /\ entries = <<>>
  /\ chokeGroup = [d \in Downloads |-> NoGroup]
  /\ capacity = 0
  /\ base = Null
  /\ failedInserts = 0
  /\ \E k \in 1..Len(BalanceNames) :
       /\ groups = [i \in 1..k |->
                      [name |-> BalanceNames[i], first |-> Null, last |-> Null]]
       /\ queues \in {[i \in 1..k |->
                         [d \in Dirs |-> IF d = dir THEN q[i] ELSE EmptyQueue]] :
                      q \in [1..k -> LoadedQueues], dir \in Dirs}
  /\ maxUploadUnchoked \in BalanceLimits
  /\ maxDownloadUnchoked = maxUploadUnchoked
  /\ currentlyUploadUnchoked = SumUnchoked(queues, "up")
  /\ currentlyDownloadUnchoked = SumUnchoked(queues, "down")
  /\ rm = [op |-> "init", res |-> "ok", wrapped |-> FALSE]

NextBalance == ReceiveTick

SpecBalance == InitBalance /\ [][NextBalance]_vars

\* The pieces in flight and the hash-failure resolver, the clock standing
\* still.
NextTL ==
  \/ \E i \in Pieces : TLInsert(i)
  \/ \E k \in 0..Len(transferList) : TLErase(k)
  \/ TLClear
  \/ \E k \in 0..(Len(transferList) - 1), b \in 1..BlockCount(SetMax(Pieces)),
        p \in Peers, d \in Data, valid \in BOOLEAN : Finished(k, b, p, d, valid)
  \/ \E i \in Pieces : succeededCount < MaxSucceeded /\ HashSucceeded(i)
  \/ \E i \in Pieces : failedCount < MaxFailed /\ HashFailed(i)

SpecTL == Init /\ [][NextTL]_vars

\* The list of completed pieces as time passes: one single-block piece is
\* downloaded and verified over and over.
NextClock ==
  \/ \E i \in ClockPieces : TLInsert(i)
  \/ \E p \in Peers, d \in Data : Finished(0, 1, p, d, TRUE)
  \/ \E i \in ClockPieces : succeededCount < MaxCompleted /\ HashSucceeded(i)
  \/ \E d \in ClockSteps : now + d <= MaxNow /\ AdvanceClock(d)

SpecClock == Init /\ [][NextClock]_vars

\* The failure resolver alone: one piece of two blocks that is downloaded,
\* fails its hash, is retried and downloaded again, up to five verdicts.
RetryPieces == {1}
RetryVerdicts == 0..4

NextRetry ==
  \/ \E i \in RetryPieces : TLInsert(i)
  \/ \E b \in 1..BlockCount(SetMax(RetryPieces)), p \in Peers, d \in Data :
       Finished(0, b, p, d, TRUE)
  \/ \E i \in RetryPieces : failedCount \in RetryVerdicts /\ HashFailed(i)

SpecRetry == Init /\ [][NextRetry]_vars

\* The stream calls, over every result and errno.
NextStream ==
  \/ \E length \in 1..MaxLength, r \in (0 - 1)..MaxLength, e \in Errnos :
       ReadStreamThrows(length, r, e)
  \/ \E length \in 1..MaxLength, r \in (0 - 1)..MaxLength, e \in Errnos :
       WriteStreamThrows(length, r, e)

SpecStream == Init /\ [][NextStream]_vars

\* One call of find_next_to_request on any list of trackers.
InitFind == InitRM /\ InitTL /\ InitStream /\ InitProbeAny /\ InitTrk /\ InitUdp

NextFind == FindNextToRequestCall

SpecFind == InitFind /\ [][NextFind]_vars

\* The order of the tracker list: usable trackers announce, succeed and
\* fail, and tiers are rotated.
NextOrder ==
  \/ \E group \in TrackerGroups : TrkInsert(TrackerIds, group, TRUE)
  \/ \E k \in 0..(Len(trackers) - 1) :
       TotalRequests < MaxRequests /\ TrkSendState(k, "STARTED")
  \/ \E k \in 0..(Len(trackers) - 1), closeFirst \in BOOLEAN :
       TrkReceiveSuccess(k, closeFirst)
  \/ \E k \in 0..(Len(trackers) - 1), closeFirst \in BOOLEAN :
       TrkReceiveFailed(k, closeFirst)
  \/ \E group \in TrackerGroups \cup {NoTrackerGroup} : TrkCycleGroup(group)

SpecOrder == Init /\ [][NextOrder]_vars

\* The requests of the tracker list: announces and scrapes of usable and
\* unusable trackers.
NextSend ==
  \/ \E group \in TrackerGroups, usable \in BOOLEAN :
       TrkInsert(SendTrackerIds, group, usable)
  \/ \E k \in 0..(Len(trackers) - 1), e \in Events :
       TotalRequests < MaxRequests /\ TrkSendState(k, e)
  \/ \E k \in 0..(Len(trackers) - 1), recent \in BOOLEAN :
       TotalRequests < MaxRequests /\ TrkSendScrape(k, recent)
  \/ \E k \in 0..(Len(trackers) - 1), closeFirst \in BOOLEAN :
       TrkReceiveSuccess(k, closeFirst)
  \/ \E k \in 0..(Len(trackers) - 1), closeFirst \in BOOLEAN :
       TrkReceiveFailed(k, closeFirst)
  \/ \E k \in 0..(Len(trackers) - 1), closeFirst \in BOOLEAN :
       TrkReceiveScrapeSuccess(k, closeFirst)

SpecSend == Init /\ [][NextSend]_vars

\* One UDP tracker: its requests, the resolver, the poll and the timer.
InitAnnounce ==
  InitRM /\ InitTL /\ InitStream /\ InitProbe /\ InitTrk /\ InitUdpAny

NextUdp ==
  \/ \E state \in SendStates : UdpSendState(state)
  \/ \E i \in SendNumbers, outcome \in StartOutcomes,
        random \in TransactionIds :
       StartAnnounce(i, outcome, random)
  \/ UdpClose
  \/ UdpDisown
  \/ ReceiveTimeout
  \/ EventWrite
  \/ \E s \in ReplySizes, action \in ReplyActions,
        transaction_id \in TransactionIds, c \in ReplyConnectionIds,
        random \in TransactionIds, info \in PlainInfos :
       EventRead(s, Reply(action, transaction_id, c), random, info)

SpecUdp == InitAnnounce /\ [][NextUdp]_vars

\* One UDP tracker whose requests all reach the announce phase, in a
\* download with any counters, local address, numwant and key.
NextPrepare ==
  \/ \E state \in SendStates : UdpSendState(state)
  \/ \E i \in SendNumbers, random \in TransactionIds :
       StartAnnounce(i, "ok", random)
  \/ EventWrite
  \/ \E transaction_id \in TransactionIds, c \in ReplyConnectionIds,
        random \in TransactionIds, info \in Infos :
       EventRead(16, Reply(0, transaction_id, c), random, info)

SpecPrepare == InitAnnounce /\ [][NextPrepare]_vars

\* One UDP tracker whose requests are left to run: nobody cancels them, the
\* resolver finds the host, and the tracker answers with any connection id.
PhaseSizes == {15, 16, 19, 20, 26}
PhaseConnectionIds == {7, 9}

NextPhases ==
  \/ \E state \in SendStates : UdpSendState(state)
  \/ \E i \in SendNumbers, random \in TransactionIds :
       StartAnnounce(i, "ok", random)
  \/ ReceiveTimeout
  \/ EventWrite
  \/ \E s \in PhaseSizes, action \in ReplyActions,
        transaction_id \in TransactionIds, c \in PhaseConnectionIds,
        random \in TransactionIds, info \in PlainInfos :
       EventRead(s, Reply(action, transaction_id, c), random, info)

SpecPhases == InitAnnounce /\ [][NextPhases]_vars

\* One UDP tracker, its resolver slots and its owner, who sends, cancels
\* and at last destroys it; the resolver may call a slot at any time.
NextResolver ==
  \/ \E state \in SendStates : ~wire.destroyed /\ UdpSendState(state)
  \/ \E i \in SendNumbers, outcome \in StartOutcomes,
        random \in TransactionIds :
       StartAnnounce(i, outcome, random)
  \/ ~wire.destroyed /\ UdpClose
  \/ ~wire.destroyed /\ UdpDisown
  \/ ReceiveTimeout
  \/ EventWrite
  \/ UdpDestroy

SpecResolver == InitAnnounce /\ [][NextResolver]_vars

\* HTTP trackers only: up to two of them, each request answered by any
\* response or by a transfer failure.
HttpIds == {1, 2}
HttpGroups == {0}
HttpRequests == {0, 1}
CachedTimes == {1}

NextHttp ==
  \/ \E group \in HttpGroups : HttpInsert(HttpIds, group)
  \/ \E k \in 0..1, new_event \in Events :
       TotalRequests \in HttpRequests /\ TrkSendState(k, new_event)
  \/ \E k \in 0..1, recent \in BOOLEAN :
       TotalRequests \in HttpRequests /\ TrkSendScrape(k, recent)
  \/ \E k \in 0..1, b \in Responses, time \in CachedTimes : HttpReceiveDone(k, b, time)
  \/ \E k \in 0..1, time \in CachedTimes : HttpSignalFailed(k, time)

SpecHttp == Init /\ [][NextHttp]_vars

(***************************************************************************)
(* ResourceManager: group boundaries                                       *)
(***************************************************************************)
\* C1: whenever the entry vector is non-empty, the entries of each group are
\* contiguous, the group's first and last delimit exactly them (an empty
\* group has first = last where its entries would be), and
\* validate_group_iterators does not raise.
C1_GroupsDelimitEntries ==
  (Alive /\ entries # <<>>) =>
    /\ \A g \in 0..(Len(groups) - 1) :
         LET own == {k \in 0..(Len(entries) - 1) : entries[k + 1].group = g}
             below == {k \in 0..(Len(entries) - 1) : entries[k + 1].group < g}
         IN /\ \A k \in own, m \in own : \A j \in k..m : j \in own
            /\ own # {} => groups[g + 1].first = base + SetMin(own)
            /\ own = {} => groups[g + 1].first = base + Cardinality(below)
            /\ groups[g + 1].last = groups[g + 1].first + Cardinality(own)
    /\ ValidateGroupIterators(groups, entries, base) = "ok"

\* The same boundaries hold as long as no insert named a group that does
\* not exist.
GroupsDelimitEntriesOfExistingGroups == failedInserts = 0 => C1_GroupsDelimitEntries

\* C2: whenever the entry vector is empty, the first and last of every
\* group are null, so that the validation of the next receive_tick passes.
C2_EmptyEntriesNullIterators ==
  (Alive /\ entries = <<>>) =>
    /\ \A i \in 1..Len(groups) : groups[i].first = Null /\ groups[i].last = Null
    /\ ValidateGroupIterators(groups, entries, base) = "ok"

C4_TickWithinLimit ==
  rm.op = "receive_tick" =>
    /\ ~rm.wrapped
    /\ rm.res = "ok" =>
         /\ maxUploadUnchoked > 0 => SumUnchoked(queues, "up") <= maxUploadUnchoked
         /\ maxDownloadUnchoked > 0 =>
              SumUnchoked(queues, "down") <= maxDownloadUnchoked

\* The limit binds: more peers are queued than it admits, in two groups.
C4_Witness ==
  /\ rm.op = "receive_tick" /\ rm.res = "ok"
  /\ maxUploadUnchoked = 2
  /\ SumUnchoked(queues, "up") = 2
  /\ Len(queues) = 2
  /\ \A i \in 1..2 : queues[i]["up"].req > 0
  /\ queues[1]["up"].req + queues[2]["up"].req > 2

(***************************************************************************)
(* TransferList: verdicts                                                  *)
(***************************************************************************)
\* C5: a hash_succeeded(i) step on a piece i in flight whose blocks are all
\* finished removes the BlockList of i, leaves i as the index of the last
\* entry of completedList, adds exactly one to succeededCount, and leaves
\* every other BlockList in flight as it was.
C5_HashSucceededRetiresPiece ==
  [][\A i \in Pieces :
       (/\ Find(transferList, i) # Len(transferList)
        /\ AllFinished(transferList[Find(transferList, i) + 1])
        /\ HashSucceeded(i))
       => /\ Find(transferList', i) = Len(transferList')
          /\ completedList' # <<>>
          /\ completedList'[Len(completedList')].index = i
          /\ succeededCount' = succeededCount + 1
          /\ LET Other(bl) == bl.index # i
             IN transferList' = SelectSeq(transferList, Other)]_vars

\* A piece was retired while the other piece, partly downloaded, is in flight.
C5_Witness ==
  /\ tl.op = "hash_succeeded" /\ tl.res = "ok"
  /\ completedList # <<>> /\ completedList[Len(completedList)].index = 1
  /\ Len(transferList) = 1 /\ transferList[1].index = 0
  /\ IsFinished(transferList[1].blocks[1])

\* C6: no two BlockLists in flight share a piece index; an insert of an
\* index in flight raises internal_error, emits nothing and leaves the list
\* as it was; any other insert emits on_queued(index) exactly once.
C6_UniqueIndices ==
  /\ [](TLAlive => \A a, b \in 1..Len(transferList) :
                     a # b => transferList[a].index # transferList[b].index)
  /\ [][\A i \in Pieces :
          TLInsert(i) =>
            IF Find(transferList, i) # Len(transferList)
            THEN /\ tl'.res = "internal_error"
                 /\ tl'.events = <<>>
                 /\ transferList' = transferList
            ELSE /\ tl'.res = "ok"
                 /\ tl'.events = <<Event("queued", i)>>
                 /\ Find(transferList', i) # Len(transferList')]_vars

\* An insert was refused while both pieces are in flight.
C6_Witness ==
  /\ tl.op = "insert" /\ tl.res = "internal_error"
  /\ Len(transferList) = 2

\* C7: a hash_succeeded step on a piece with failed > 0 emits on_corrupt
\* exactly once for every peer that owns, in some block of the piece, a
\* transfer whose failed_index is set and is not the offset of the failed
\* list entry holding the verified bytes, and for no other peer; on a piece
\* with failed = 0 it emits no on_corrupt.
C7_CorruptPeersExactly ==
  [][\A i \in Pieces :
       (/\ Find(transferList, i) # Len(transferList)
        /\ AllFinished(transferList[Find(transferList, i) + 1])
        /\ HashSucceeded(i))
       => LET bl == transferList[Find(transferList, i) + 1]
              Good(block, n) ==
                /\ n >= 0 /\ n < Len(block.failedList)
                /\ block.failedList[n + 1].data = block.bytes
              bad == {p \in Peers :
                        \E b \in 1..Len(bl.blocks) :
                        \E n \in 1..Len(bl.blocks[b].transfers) :
                          LET t == bl.blocks[b].transfers[n]
                          IN /\ t.peer = p
                             /\ t.failedIndex # Unset
                             /\ ~Good(bl.blocks[b], t.failedIndex)}
              Count(p) == Cardinality({n \in 1..Len(tl'.events) :
                                         tl'.events[n] = Event("corrupt", p)})
          IN /\ \A n \in 1..Len(tl'.events) : tl'.events[n].ev = "corrupt"
             /\ \A p \in Peers : Count(p) = IF p \in bad /\ bl.failed > 0 THEN 1 ELSE 0
             /\ bl.failed = 0 => tl'.events = <<>>]_vars

\* A verified piece had failed before, and one peer, not both, was reported.
C7_Witness ==
  /\ tl.op = "hash_succeeded" /\ tl.res = "ok"
  /\ failedCount > 0
  /\ Len(tl.events) = 1 /\ tl.events[1].ev = "corrupt"

\* C8: a hash_failed step on a piece in flight whose blocks are all finished
\* keeps its BlockList in flight; at attempt = 0 it sets attempt to 1, emits
\* on_completed(index) once and does not run do_all_failed (the blocks stay
\* finished); at attempt > 0 it runs do_all_failed (no block stays finished)
\* and emits no on_completed.
C8_FirstFailureRetries ==
  [][\A i \in Pieces :
       (/\ Find(transferList, i) # Len(transferList)
        /\ AllFinished(transferList[Find(transferList, i) + 1])
        /\ HashFailed(i))
       => /\ Find(transferList', i) # Len(transferList')
          /\ LET bl == transferList[Find(transferList, i) + 1]
                 nbl == transferList'[Find(transferList', i) + 1]
             IN /\ bl.attempt = 0 =>
                     /\ nbl.attempt = 1
                     /\ tl'.events = <<Event("completed", i)>>
                     /\ AllFinished(nbl)
                /\ bl.attempt > 0 =>
                     /\ tl'.events = <<>>
                     /\ \A b \in 1..Len(nbl.blocks) : ~IsFinished(nbl.blocks[b])]_vars

\* A retry failed again: the piece of two blocks was given up for download.
C8_Witness ==
  /\ tl.op = "hash_failed" /\ tl.res = "ok" /\ tl.events = <<>>
  /\ failedCount = 2
  /\ \E n \in 1..Len(transferList) :
       /\ transferList[n].index = 1
       /\ transferList[n].failed = 1
       /\ \A b \in 1..2 : ~IsFinished(transferList[n].blocks[b])

(***************************************************************************)
(* TransferList: the list of completed pieces                              *)
(***************************************************************************)
\* C9: with a clock that never runs backwards, no step removes from
\* completedList an entry that is less than 30 minutes old after the step:
\* the entries from the oldest such entry on stay, in their order.
C9_RetainedThirtyMinutes ==
  [][LET young == {k \in 1..Len(completedList) : now' < completedList[k].time + 30}
         kept == SubSeq(completedList, SetMin(young), Len(completedList))
     IN young # {} =>
          \E off \in 0..(Len(completedList') - Len(kept)) :
            SubSeq(completedList', off + 1, off + Len(kept)) = kept]_vars

\* A pruning call dropped an old entry and kept one that is 15 minutes old.
C9_Witness ==
  /\ tl.op = "hash_succeeded" /\ tl.res = "ok"
  /\ succeededCount > Len(completedList)
  /\ Len(completedList) >= 2
  /\ completedList[1].time + 15 = now
  /\ completedList[Len(completedList)].time = now

\* C10: when a hash_succeeded call returns, the front entry of completedList
\* is at most 60 minutes old and the timestamps of completedList are in
\* non-decreasing order.
C10_FrontWithinHour ==
  [][\A i \in ClockPieces :
       (HashSucceeded(i) /\ tl'.res = "ok")
       => /\ completedList' # <<>>
          /\ now' <= completedList'[1].time + 60
          /\ \A a, b \in 1..Len(completedList') :
               a < b => completedList'[a].time <= completedList'[b].time]_vars

\* A call returned with a front entry exactly 60 minutes old, kept.
C10_Witness ==
  /\ tl.op = "hash_succeeded" /\ tl.res = "ok"
  /\ Len(completedList) >= 2
  /\ completedList[1].time + 60 = now

(***************************************************************************)
(* SocketStream: outcomes                                                  *)
(***************************************************************************)
\* C20: whatever the underlying call returned and whatever errno holds,
\* read_stream_throws and write_stream_throws end in the same single
\* outcome: r > 0 returns r; r = 0 raises close_connection; r < 0 returns 0
\* on a momentary error, raises close_connection on a closed-class error,
\* blocked_connection on a prolonged one and connection_error(errno) on any
\* other; 0 is returned only on a momentary error.
C20_StreamOutcomes ==
  stream.op \in {"read", "write"} =>
    LET r == stream.r
        e == stream.errno
        o == stream.outcome
    IN /\ o.kind \in {"return", "close_connection", "blocked_connection",
                      "connection_error"}
       /\ r > 0 => o.kind = "return" /\ o.bytes = r
       /\ r = 0 => o.kind = "close_connection"
       /\ (r < 0 /\ IsBlockedMomentary(e)) => o.kind = "return" /\ o.bytes = 0
       /\ (r < 0 /\ IsClosed(e)) => o.kind = "close_connection"
       /\ (r < 0 /\ IsBlockedProlonged(e)) => o.kind = "blocked_connection"
       /\ (r < 0 /\ ~IsBlockedMomentary(e) /\ ~IsClosed(e) /\ ~IsBlockedProlonged(e))
            => o.kind = "connection_error" /\ o.errno = e
       /\ (o.kind = "return" /\ o.bytes = 0) => (r < 0 /\ IsBlockedMomentary(e))

\* A write failed with an errno of no class: the error is passed on with its
\* number.
C20_Witness ==
  /\ stream.op = "write" /\ stream.r < 0 /\ stream.errno = "EINVAL"
  /\ stream.outcome = ThrowsConnectionError("EINVAL")

(***************************************************************************)
(* TrackerList: the next tracker to request                                *)
(***************************************************************************)
\* The requestable trackers at or after the iterator handed in.
Requestable == {k \in probe.iter..(Len(probe.trackers) - 1) : probe.trackers[k + 1].canRequest}

\* Of the positions S, the earliest with the smallest failed_time_next.
EarliestDue(S) ==
  CHOOSE k \in S : \A m \in S :
    \/ probe.trackers[k + 1].failedTimeNext < probe.trackers[m + 1].failedTimeNext
    \/ /\ probe.trackers[k + 1].failedTimeNext = probe.trackers[m + 1].failedTimeNext
       /\ k <= m

\* C18: when the first requestable tracker at or after iter is failing,
\* find_next_to_request returns the requestable failing tracker with the
\* smallest failed_time_next between iter and the end of the list (the
\* earliest on ties), or else a healthy tracker that superseded the failing
\* choice.
C18_SmallestFailedTimeNext ==
  (/\ probe.result # NoResult
   /\ Requestable # {}
   /\ probe.trackers[SetMin(Requestable) + 1].failedCounter > 0)
  => LET failing == {k \in Requestable : probe.trackers[k + 1].failedCounter > 0}
         best == EarliestDue(failing)
         r == probe.result
     IN \/ r = best
        \/ /\ r \in Requestable
           /\ probe.trackers[r + 1].failedCounter = 0

\* The same choice holds among the failing trackers up to the first healthy
\* requestable one, where the walk ends.
SmallestFailedTimeNextUpToHealthy ==
  (/\ probe.result # NoResult
   /\ Requestable # {}
   /\ probe.trackers[SetMin(Requestable) + 1].failedCounter > 0)
  => LET healthy == {k \in Requestable : probe.trackers[k + 1].failedCounter = 0}
         stop == SetMin(healthy \cup {Len(probe.trackers)})
         failing == {k \in Requestable :
                       k < stop /\ probe.trackers[k + 1].failedCounter > 0}
         best == EarliestDue(failing)
         r == probe.result
     IN \/ r = best
        \/ /\ r = stop /\ r \in healthy
           /\ probe.trackers[r + 1].successTimeNext <
                probe.trackers[best + 1].failedTimeNext

\* C19: find_next_to_request changes nothing; it returns end exactly when
\* no tracker at or after iter is requestable and a requestable tracker at
\* or after iter otherwise; it returns the first requestable tracker
\* whenever that one is healthy; and a healthy tracker it returns in place
\* of a failing one has a success_time_next strictly below the
\* failed_time_next of the failing choice it replaced.
C19_FindNextToRequest ==
  /\ [](probe.result # NoResult =>
         LET ts == probe.trackers
             r == probe.result
         IN /\ r = FindNextToRequest(ts, probe.iter)
            /\ (r = Len(ts)) <=> (Requestable = {})
            /\ r # Len(ts) => r \in Requestable
            /\ (Requestable # {} /\ ts[SetMin(Requestable) + 1].failedCounter = 0)
                 => r = SetMin(Requestable)
            /\ (r \in Requestable /\ ts[r + 1].failedCounter = 0
                  /\ r # SetMin(Requestable))
                 => LET failing == {k \in Requestable :
                                      k < r /\ ts[k + 1].failedCounter > 0}
                    IN /\ failing # {}
                       /\ ts[r + 1].successTimeNext <
                            ts[EarliestDue(failing) + 1].failedTimeNext)
  /\ [][FindNextToRequestCall =>
          /\ probe'.trackers = probe.trackers
          /\ probe'.iter = probe.iter]_vars

\* A healthy tracker, found behind two failing ones, was returned in their
\* place.
C19_Witness ==
  /\ probe.result = 2 /\ probe.iter = 0
  /\ Len(probe.trackers) = 3
  /\ \A k \in 1..3 : probe.trackers[k].canRequest
  /\ probe.trackers[1].failedCounter > 0
  /\ probe.trackers[2].failedCounter > 0
  /\ probe.trackers[3].failedCounter = 0

(***************************************************************************)
(* TrackerList: order and requests                                         *)
(***************************************************************************)
\* The positions of the trackers of a group.
GroupMembers(ts, group) == {j \in 0..(Len(ts) - 1) : ts[j + 1].group = group}

\* C15: receive_success for a tracker t of the list that is not busy puts t
\* at the head of its group by exchanging it with the previous head, every
\* other tracker and every position's group number staying as they were,
\* sets t's failed counter to 0 and adds one to its success counter.
C15_SuccessPromotes ==
  [][\A k \in 0..(Len(trackers) - 1) :
       TrkReceiveSuccess(k, TRUE) =>
         LET t == trackers[k + 1]
             head == SetMin(GroupMembers(trackers, t.group))
         IN /\ trk'.res = "ok"
            /\ Len(trackers') = Len(trackers)
            /\ trackers'[head + 1].id = t.id
            /\ head = SetMin(GroupMembers(trackers', t.group))
            /\ k # head => trackers'[k + 1] = trackers[head + 1]
            /\ \A j \in 0..(Len(trackers) - 1) :
                 /\ j \notin {head, k} => trackers'[j + 1] = trackers[j + 1]
                 /\ trackers'[j + 1].group = trackers[j + 1].group
            /\ trackers'[head + 1].failed = 0
            /\ trackers'[head + 1].success = t.success + 1]_vars

\* Three trackers of one tier: the first two failed, the third succeeded and
\* now heads the tier.
C15_Witness ==
  /\ trk.op = "receive_success" /\ trk.res = "ok"
  /\ Len(trackers) = 3
  /\ \A j \in 1..3 : trackers[j].group = 0
  /\ trackers[1].id = 3 /\ trackers[1].success = 1
  /\ trackers[2].id = 2 /\ trackers[2].failed = 1
  /\ trackers[3].id = 1 /\ trackers[3].failed = 1

\* cycle_group(group) applied n times
RECURSIVE CycleTimes(_, _, _)
CycleTimes(ts, group, n) ==
  IF n = 0 THEN ts ELSE CycleTimes(CycleGroup(ts, group), group, n - 1)

\* C16: cycle_group(g) moves the head of group g to the group's tail and
\* every other member of g one place forward, the trackers of other groups
\* staying in place; a group without trackers is left as it is; n
\* applications to a group of n trackers restore the order.
C16_CycleRotates ==
  /\ [][\A g \in TrackerGroups \cup {NoTrackerGroup} :
          TrkCycleGroup(g) =>
            LET members == GroupMembers(trackers, g)
            IN /\ Len(trackers') = Len(trackers)
               /\ members = {} => trackers' = trackers
               /\ \A j \in 0..(Len(trackers) - 1) :
                    trackers'[j + 1] =
                      IF j \notin members THEN trackers[j + 1]
                      ELSE IF j = SetMax(members) THEN trackers[SetMin(members) + 1]
                      ELSE trackers[j + 2]]_vars
  /\ [](\A g \in TrackerGroups \cup {NoTrackerGroup} :
          CycleTimes(trackers, g, Cardinality(GroupMembers(trackers, g))) = trackers)

\* A tier of two was rotated in front of a tier of one.
C16_Witness ==
  /\ trk.op = "cycle_group"
  /\ Len(trackers) = 3
  /\ trackers[1].id = 2 /\ trackers[1].group = 0
  /\ trackers[2].id = 1 /\ trackers[2].group = 0
  /\ trackers[3].id = 3 /\ trackers[3].group = 1

Field(buf, offset, size) == SubSeq(buf, offset + 1, offset + size)

\* The signed integer a run of bytes holds in two's complement.
Signed(bytes) ==
  IF bytes[1] >= 128
  THEN 0 - (BeValue([i \in 1..Len(bytes) |-> 255 - bytes[i]]) + 1)
  ELSE BeValue(bytes)

AnnounceLayout(buf, u, info) ==
  /\ Len(buf) = 98
  /\ Field(buf, 0, 8) = u.connectionId
  /\ BeValue(Field(buf, 8, 4)) = 1
  /\ BeValue(Field(buf, 12, 4)) = u.transactionId
  /\ Field(buf, 16, 20) = InfoHash
  /\ Field(buf, 36, 20) = LocalId
  /\ BeValue(Field(buf, 56, 8)) = info.completed
  /\ BeValue(Field(buf, 64, 8)) = info.left
  /\ BeValue(Field(buf, 72, 8)) = info.uploaded
  /\ BeValue(Field(buf, 80, 4)) = u.sendState
  /\ Field(buf, 84, 4) = (IF info.inet THEN info.address_n ELSE <<0, 0, 0, 0>>)
  /\ BeValue(Field(buf, 88, 4)) = info.key
  /\ Signed(Field(buf, 92, 4)) = info.numwant
  /\ BeValue(Field(buf, 96, 2)) = info.port

\* C11: whenever a connect reply moves the request to the announce phase,
\* the write buffer holds exactly 98 bytes: connection_id(8), action = 1 (4),
\* transaction_id(4), info_hash(20), peer_id(20), downloaded(8), left(8),
\* uploaded(8), event(4), ip(4), key(4), numwant(4), port(2), and the size
\* check raises no internal_error.
C11_AnnounceInput ==
  [][\A transaction_id \in TransactionIds, c \in ReplyConnectionIds,
        random \in TransactionIds, info \in Infos :
       (/\ udp.action = 0
        /\ udp'.action = 1
        /\ EventRead(16, Reply(0, transaction_id, c), random, info))
       => /\ wire'.error = "none"
          /\ udp'.transactionId = random
          /\ udp'.connectionId = Field(Reply(0, transaction_id, c), 8, 8)
          /\ AnnounceLayout(udp'.writeBuffer, udp', info)]_vars

\* An announce request with numwant = -1 and no inet local address was
\* built and written to the socket.
C11_Witness ==
  /\ udp.fd
  /\ udp.action = 1
  /\ wire.count = 1
  /\ Len(udp.writeBuffer) = 98
  /\ Field(udp.writeBuffer, 92, 4) = <<255, 255, 255, 255>>
  /\ Field(udp.writeBuffer, 84, 4) = <<0, 0, 0, 0>>
  /\ BeValue(Field(udp.writeBuffer, 64, 8)) = 70000

(***************************************************************************)
(* TrackerUdp: retries                                                     *)
(***************************************************************************)
UnableToConnect ==
  [call |-> "receive_failed", msg |-> "unable to connect to UDP tracker"]

\* C12: with udp_tries = N >= 1 and no valid reply, the timer fires N times
\* for the current datagram; each of the first N - 1 timeouts re-arms the
\* timer and asks for one more write, the N-th delivers
\* receive_failed("unable to connect to UDP tracker") once and leaves the
\* tracker without socket and timer.  The datagram was written once in every
\* period whose write the poll delivered before the timeout: N times when
\* none was missed.
C12_TimeoutRetries ==
  /\ [](/\ udp.fd => (udp.timer /\ wire.timeouts < udp.udpTries
                                /\ udp.tries = udp.udpTries - wire.timeouts)
        /\ ~udp.fd => (~udp.timer /\ ~udp.pollRead /\ ~udp.pollWrite))
  /\ [][ReceiveTimeout =>
         /\ wire'.timeouts = wire.timeouts + 1
         /\ wire'.count = wire'.timeouts - wire'.missed
         /\ IF wire'.timeouts = udp.udpTries
            THEN /\ parent' = Append(parent, UnableToConnect)
                 /\ ~udp'.fd
                 /\ ~udp'.timer
                 /\ wire'.missed = 0 => wire'.count = udp.udpTries
            ELSE /\ parent' = parent
                 /\ udp'.fd
                 /\ udp'.timer
                 /\ udp'.pollWrite]_vars

\* Three tries ran out in the announce phase: the announce request was
\* written three times and the failure is the only callback delivered.
C12_Witness ==
  /\ udp.udpTries = 3
  /\ udp.action = 1
  /\ ~udp.fd
  /\ wire.timeouts = 3
  /\ wire.count = 3
  /\ wire.missed = 0
  /\ parent = <<UnableToConnect>>

(***************************************************************************)
(* TrackerUdp: datagrams that are not a valid reply                        *)
(***************************************************************************)
\* A datagram of s bytes with this action and transaction id is no valid
\* reply for the tracker u: its transaction id is not the expected one, its
\* action is that of the other phase, or it is shorter than a connect (16),
\* announce (20) or error (8) reply.
NoValidReply(s, action, transaction_id, u) ==
  /\ s >= 0
  /\ \/ s >= 8 /\ transaction_id # u.transactionId
     \/ action \in {0, 1} /\ action # u.action
     \/ action = 0 /\ s < 16
     \/ action = 1 /\ s < 20
     \/ action = 3 /\ s < 8

\* C13: a datagram with the wrong transaction_id, with an action that does
\* not match the phase, or shorter than 16 (connect), 20 (announce) or 8
\* (error) bytes changes nothing: phase, connection id, tries, timer, poll
\* sets and write buffer stay, and the parent gets no callback.
C13_InvalidReplyIgnored ==
  (udp.fd /\ udp.pollRead) =>
    \A s \in ReplySizes, action \in ReplyActions,
       transaction_id \in TransactionIds :
      NoValidReply(s, action, transaction_id, udp)
      => \A c \in ReplyConnectionIds, random \in TransactionIds,
            info \in PlainInfos :
           EventReadResult(udp, parent, wire, s,
                           Reply(action, transaction_id, c), random, info)
             = [udp |-> udp, parent |-> parent, wire |-> wire]

\* A request in its announce phase, its request written and two of three
\* tries left, which the datagrams of C13 leave as it is.
C13_Witness ==
  /\ udp.fd
  /\ udp.pollRead
  /\ udp.action = 1
  /\ udp.udpTries = 3
  /\ udp.tries = 2
  /\ wire.count = 2
  /\ parent = <<>>
  /\ \E s \in ReplySizes, action \in ReplyActions,
        transaction_id \in TransactionIds :
       /\ NoValidReply(s, action, transaction_id, udp)
       /\ s >= 20
       /\ action = 1

(***************************************************************************)
(* TrackerUdp: close() and disown()                                        *)
(***************************************************************************)
\* Between two states the cancelled request did nothing to the outside: no
\* datagram written, no callback delivered, no socket open.
Silent ==
  /\ wire'.count # wire.count + 1
  /\ parent' = parent
  /\ ~udp'.fd

\* C14: after close() or disown() returned, in whatever phase the request
\* was (awaiting the hostname, connecting, announcing), the request writes no
\* further datagram and delivers neither receive_success nor receive_failed;
\* a resolver callback that fires afterwards does nothing.
C14_CancelledRequestSilent ==
  [][(/\ wire.cancelled \in {"resolving", "socket"}
      /\ wire'.cancelled = wire.cancelled) => Silent]_vars

\* The same for the requests that had their socket when close() or disown()
\* was called.
CancelledWithSocketSilent ==
  [][(wire.cancelled = "socket" /\ wire'.cancelled = wire.cancelled)
       => Silent]_vars
(***************************************************************************)
(* ResourceManager: limits, priorities and running totals                  *)
(***************************************************************************)
MaxUnchokedSet(m, bound) ==
  /\ SetMaxUploadUnchoked(m) =>
       IF 0 <= m /\ m < bound
       THEN maxUploadUnchoked' = m /\ rm'.res = "ok"
       ELSE maxUploadUnchoked' = maxUploadUnchoked /\ rm'.res = "input_error"
  /\ SetMaxDownloadUnchoked(m) =>
       IF 0 <= m /\ m < bound
       THEN maxDownloadUnchoked' = m /\ rm'.res = "ok"
       ELSE maxDownloadUnchoked' = maxDownloadUnchoked
            /\ rm'.res = "input_error"

\* C21: set_max_upload_unchoked(m) and set_max_download_unchoked(m) store m
\* exactly when 0 <= m < 65536; for every other m, 65536 included, they
\* raise input_error and leave the stored maximum as it was.
C21_MaxUnchokedRange ==
  [][\A m \in LimitArgs : MaxUnchokedSet(m, 65536)]_vars

\* What the code does: the accepted range is 0 <= m <= 65536.
MaxUnchokedRangeClosed ==
  [][\A m \in LimitArgs : MaxUnchokedSet(m, 65537)]_vars


\* download_set_priority called for a registered download with a priority
\* outside [0, 1024] ends in the error `kind` and leaves the entries alone.
PriorityRejected(kind) ==
  \A d \in ChokeDownloads, pri \in PriorityArgs :
    (/\ d \in Registered
     /\ pri \notin 0..1024
     /\ DownloadSetPriority(d, pri))
    => (rm'.res = kind /\ entries' = entries)

PriorityInRange == \A k \in 1..Len(entries) : entries[k].priority \in 0..1024

\* C22: a priority outside the allowed range is rejected with input_error,
\* not internal_error, and the stored priority stays, so that every entry's
\* priority lies in [0, 1024] after any sequence of priority updates.
C22_PriorityRejectedRecoverably ==
  []PriorityInRange /\ [][PriorityRejected("input_error")]_vars

\* What the code does: the rejection is an internal_error.
PriorityRejectedInternally ==
  []PriorityInRange /\ [][PriorityRejected("internal_error")]_vars

\* C23: receive_upload_unchoke(delta) and receive_download_unchoke(delta)
\* add delta to their running total when the sum is not negative, and
\* otherwise raise internal_error and leave the total as it was; the totals
\* are never negative.
C23_UnchokeTotals ==
  /\ [](currentlyUploadUnchoked >= 0 /\ currentlyDownloadUnchoked >= 0)
  /\ [][\A num \in Deltas :
          /\ ReceiveUploadUnchoke(num) =>
               IF currentlyUploadUnchoked + num >= 0
               THEN /\ currentlyUploadUnchoked' = currentlyUploadUnchoked + num
                    /\ rm'.res = "ok"
               ELSE /\ currentlyUploadUnchoked' = currentlyUploadUnchoked
                    /\ rm'.res = "internal_error"
          /\ ReceiveDownloadUnchoke(num) =>
               IF currentlyDownloadUnchoked + num >= 0
               THEN /\ currentlyDownloadUnchoked'
                         = currentlyDownloadUnchoked + num
                    /\ rm'.res = "ok"
               ELSE /\ currentlyDownloadUnchoked' = currentlyDownloadUnchoked
                    /\ rm'.res = "internal_error"]_vars

\* receive_download_unchoke(-2) was refused at a total of 1, after the
\* upload total had grown to 3.
C23_Witness ==
  /\ rm.op = "receive_download_unchoke"
  /\ rm.res = "internal_error"
  /\ currentlyDownloadUnchoked = 1
  /\ currentlyUploadUnchoked = 3

(***************************************************************************)
(* ResourceManager: push_group and set_group                               *)
(***************************************************************************)
NamesOf(gs) == [i \in 1..Len(gs) |-> gs[i].name]

\* C24: group names are pairwise distinct and non-empty and the group list
\* only grows, by appending; push_group with the empty name or a name in
\* use raises input_error and leaves the groups, their boundaries, the
\* queues and the entries unchanged.
C24_PushGroupNames ==
  /\ [](\A i, j \in 1..Len(groups) :
          /\ groups[i].name # ""
          /\ i # j => groups[i].name # groups[j].name)
  /\ [][/\ Len(groups') \in {Len(groups), Len(groups) + 1}
        /\ SubSeq(NamesOf(groups'), 1, Len(groups)) = NamesOf(groups)
        /\ \A n \in NameArgs(GroupNames) :
             PushGroup(n) =>
               IF n = "" \/ \E i \in 1..Len(groups) : groups[i].name = n
               THEN /\ rm'.res = "input_error"
                    /\ UNCHANGED <<groups, queues, entries, chokeGroup>>
               ELSE /\ rm'.res = "ok"
                    /\ SubSeq(groups', 1, Len(groups)) = groups
                    /\ NamesOf(groups') = Append(NamesOf(groups), n)
                    /\ UNCHANGED <<entries, chokeGroup>>]_vars

\* push_group was refused with two groups and two entries in place.
C24_Witness ==
  /\ rm.op = "push_group"
  /\ rm.res = "input_error"
  /\ Len(groups) = 2
  /\ Len(entries) = 2


\* What set_group(itr, grp) is said to do to the entry at offset k.
SetGroupReassigns(k, grp) ==
  LET e == entries[k + 1]
      at == {j \in 0..(Len(entries') - 1) : entries'[j + 1].download = e.download}
  IN IF grp = e.group
     THEN /\ rm'.res = "ok"
          /\ UNCHANGED <<entries, groups, queues, chokeGroup>>
     ELSE IF grp >= Len(groups)
     THEN /\ rm'.res = "input_error"
          /\ UNCHANGED <<entries, groups, queues, chokeGroup>>
     ELSE /\ rm'.res = "ok"
          /\ Cardinality(at) = 1
          /\ \A j \in at :
               /\ entries'[j + 1] = [e EXCEPT !.group = grp]
               /\ \A i \in 0..(Len(entries') - 1) :
                    /\ i < j => entries'[i + 1].group <= grp
                    /\ i > j => entries'[i + 1].group > grp
               /\ RemoveAt(entries', j) = RemoveAt(entries, k)
          /\ chokeGroup' = [chokeGroup EXCEPT ![e.download] = grp]

\* C25: set_group(itr, g') to another existing group leaves the download
\* registered once, with its priority, in group g' with choke_group g', at
\* the end of g''s range, the other entries keeping their group, priority
\* and order; with g' the entry's group nothing changes; with g' not an
\* existing group input_error is raised and nothing changes.
C25_SetGroupReassigns ==
  [][\A k \in 0..(Len(entries) - 1), g \in GroupArgs :
       SetGroup(k, g) => SetGroupReassigns(k, g)]_vars

\* The same where no insert has named a missing group.
SetGroupReassignsRegistered ==
  [][\A k \in 0..(Len(entries) - 1), g \in GroupArgs :
       (failedInserts = 0 /\ SetGroup(k, g)) => SetGroupReassigns(k, g)]_vars


(***************************************************************************)
(* C26: after a successful HTTP announce response (no failure reason,      *)
(* peers present) that carries interval but no min interval, the           *)
(* tracker's normal_interval is the one set from the response's interval   *)
(* and its min_interval is the default; when interval is absent the        *)
(* normal_interval is the default normal interval.                         *)
(***************************************************************************)
\* The tracker of the list ts that is the object id
TrackerOf(ts, id) == ts[CHOOSE j \in 1..Len(ts) : ts[j].id = id]

\* The announce requests in flight and the responses that end them well
SuccessfulAnnounces ==
  {x \in (0..(Len(trackers) - 1)) \X AnnounceMaps \X CachedTimes :
     /\ trackers[x[1] + 1].busy
     /\ trackers[x[1] + 1].latestEvent # "SCRAPE"
     /\ ~x[2].failure
     /\ x[2].peers = "compact"}

\* The tracker of request x once receive_done() has run on its response
Answered(x) ==
  TrackerOf(ReceiveDoneResult(trackers, x[1], x[2], x[3]).list, trackers[x[1] + 1].id)

C26_SuccessIntervals ==
  \A x \in SuccessfulAnnounces :
    /\ ReceiveDoneResult(trackers, x[1], x[2], x[3]).calls = <<"success">>
    /\ (x[2].interval # Absent /\ x[2].minInterval = Absent) =>
         /\ Answered(x).normalInterval
              = SetNormalInterval(trackers[x[1] + 1], x[2].interval[1]).normalInterval
         /\ Answered(x).minInterval = default_min_interval
    /\ x[2].interval = Absent =>
         Answered(x).normalInterval = default_normal_interval

\* What the code does: without min interval in the response the
\* normal_interval ends as the one set from default_min_interval, whatever
\* interval the response carries, and min_interval keeps its value.
SuccessIntervalsWithoutMin ==
  \A x \in SuccessfulAnnounces :
    /\ ReceiveDoneResult(trackers, x[1], x[2], x[3]).calls = <<"success">>
    /\ x[2].minInterval = Absent =>
         /\ Answered(x).normalInterval
              = SetNormalInterval(trackers[x[1] + 1], default_min_interval).normalInterval
         /\ Answered(x).minInterval = trackers[x[1] + 1].minInterval
    /\ x[2].minInterval # Absent =>
         /\ Answered(x).normalInterval
              = IF x[2].interval # Absent
                THEN SetNormalInterval(trackers[x[1] + 1], x[2].interval[1]).normalInterval
                ELSE default_normal_interval
         /\ Answered(x).minInterval
              = SetMinInterval(trackers[x[1] + 1], x[2].minInterval[1]).minInterval

(***************************************************************************)
(* C27: an HTTP response that holds failure reason is reported exactly     *)
(* once.  For an announce the interval, min interval, tracker id and       *)
(* scrape fields of the response are absorbed first and receive_failed is  *)
(* then delivered, so that failed_counter grows by one; for a scrape       *)
(* nothing is absorbed and receive_scrape_failed is delivered, with        *)
(* failed_counter and failed_time_last as they were.  Either way the       *)
(* tracker stays in the list at its position.                              *)
(***************************************************************************)
\* The requests in flight and the responses with a failure reason
FailureResponses ==
  {x \in (0..(Len(trackers) - 1)) \X ResponseMaps \X CachedTimes :
     trackers[x[1] + 1].busy /\ x[2].failure}

\* The tracker t after an announce was answered by b with a failure reason
AnnounceFailed(t, a, b, time) ==
  /\ a.normalInterval = IF b.interval # Absent
                        THEN SetNormalInterval(t, b.interval[1]).normalInterval
                        ELSE t.normalInterval
  /\ a.minInterval = IF b.minInterval # Absent
                     THEN SetMinInterval(t, b.minInterval[1]).minInterval
                     ELSE t.minInterval
  /\ a.trackerId = IF b.trackerId # Absent THEN b.trackerId ELSE t.trackerId
  /\ IF b.complete # Absent /\ b.incomplete # Absent
     THEN /\ a.scrapeComplete = Max(b.complete[1], 0)
          /\ a.scrapeIncomplete = Max(b.incomplete[1], 0)
          /\ a.scrapeTimeLast = time
     ELSE /\ a.scrapeComplete = t.scrapeComplete
          /\ a.scrapeIncomplete = t.scrapeIncomplete
          /\ a.scrapeTimeLast = t.scrapeTimeLast
  /\ a.scrapeDownloaded = IF b.downloaded # Absent
                          THEN Max(b.downloaded[1], 0)
                          ELSE t.scrapeDownloaded
  /\ a.failed = t.failed + 1
  /\ a.failedTimeLast = time
  /\ a.success = t.success /\ a.successTimeLast = t.successTimeLast
  /\ a.scrapes = t.scrapes /\ a.latestEvent = t.latestEvent

C27_FailureReasonReported ==
  \A x \in FailureResponses :
    LET k == x[1]
        t == trackers[k + 1]
        r == ReceiveDoneResult(trackers, k, x[2], x[3])
    IN /\ r.res = "ok"
       /\ Len(r.list) = Len(trackers)
       /\ \A j \in 1..Len(trackers) :
            /\ r.list[j].id = trackers[j].id
            /\ j # k + 1 => r.list[j] = trackers[j]
       /\ ~r.list[k + 1].busy
       /\ IF t.latestEvent # "SCRAPE"
          THEN /\ r.calls = <<"failed">>
               /\ AnnounceFailed(t, r.list[k + 1], x[2], x[3])
          ELSE /\ r.calls = <<"scrape_failed">>
               /\ r.list[k + 1] = [t EXCEPT !.busy = FALSE]

\* Reached: the second of two trackers has had one request, an announce,
\* whose response held a failure reason next to interval and tracker id;
\* another request is in flight.
C27_Witness ==
  /\ Len(trackers) = 2
  /\ trk.op = "receive_done" /\ trk.calls = <<"failed">>
  /\ trackers[2].requests = 1 /\ trackers[2].failed = 1
  /\ trackers[2].normalInterval = 900 /\ trackers[2].trackerId = <<"t1">>
  /\ trackers[2].failedTimeLast = 1
  /\ trackers[1].busy /\ trackers[1].latestEvent = "SCRAPE"

(***************************************************************************)
(* C28: hash_succeeded(index) and hash_failed(index) validate the verdict  *)
(* before acting: for an index that is not in the TransferList, and for a  *)
(* BlockList with a block that is not finished, the call raises            *)
(* internal_error and changes nothing: no counter, no completedList        *)
(* entry, no callback, no BlockList removed.                               *)
(***************************************************************************)
\* Is a hash verdict for this index out of place?
VerdictInvalid(index) ==
  LET k == Find(transferList, index)
  IN k = Len(transferList) \/ ~AllFinished(transferList[k + 1])

\* The call before this step was refused and changed nothing
VerdictRefused ==
  /\ tl'.res = "internal_error"
  /\ tl'.events = <<>>
  /\ UNCHANGED <<transferList, completedList, succeededCount, failedCount>>

C28_VerdictValidated ==
  [][\A index \in Pieces :
       (/\ VerdictInvalid(index)
        /\ tl'.op \in {"hash_succeeded", "hash_failed"}
        /\ HashSucceeded(index) \/ HashFailed(index)) => VerdictRefused]_vars

\* What the code does: hash_failed refuses both cases, hash_succeeded only
\* the unfinished BlockList of an index that is in the list.
VerdictValidatedWhenFound ==
  [][\A index \in Pieces :
       (/\ VerdictInvalid(index)
        /\ tl'.op \in {"hash_succeeded", "hash_failed"}
        /\ \/ HashFailed(index)
           \/ Find(transferList, index) # Len(transferList) /\ HashSucceeded(index))
       => VerdictRefused]_vars

(***************************************************************************)
(* C29: with max_unchoked = M > 0 and k groups, balance_unchoked visits    *)
(* the groups in ascending order of their requested counts and offers the  *)
(* i-th group it visits cycle(floor(q / w)), where q is M minus the        *)
(* unchoked counts of the groups visited before it and w the number of     *)
(* groups not yet visited; the weight reaches zero.  For requested counts  *)
(* 10, 2, 50 and M = 9 the groups end with 3, 2, 4 unchoked.               *)
(***************************************************************************)
\* The limit of a direction
MaxUnchoked(dir) == IF dir = "up" THEN maxUploadUnchoked ELSE maxDownloadUnchoked

\* The requested and the unchoked counts of a direction, group by group
RequestedOf(dir) == [i \in 1..Len(queues) |-> queues[i][dir].req]
UnchokedOf(dir) == [i \in 1..Len(queues) |-> queues[i][dir].unch]

\* The quota left for the i-th group visited in the order o
QuotaLeft(dir, o, i) ==
  MaxUnchoked(dir) - SumSeq([j \in 1..(i - 1) |-> queues[o[j]][dir].unch])

\* The groups hold what a visit in the order o leaves them with
SharedInOrder(dir, o) ==
  /\ \A i, j \in 1..Len(queues) :
       i < j => queues[o[i]][dir].req <= queues[o[j]][dir].req
  /\ \A i \in 1..Len(queues) :
       queues[o[i]][dir].unch =
         Min(queues[o[i]][dir].req,
             QuotaLeft(dir, o, i) \div (Len(queues) - i + 1))

\* A tick has run to its end
Ticked == rm.op = "receive_tick" /\ rm.res # "undefined"

C29_BalanceShares ==
  Ticked =>
    /\ rm.res = "ok"
    /\ \A dir \in Dirs :
         MaxUnchoked(dir) > 0 =>
           /\ \E o \in OrdersUnsorted(queues, dir) : SharedInOrder(dir, o)
           /\ (MaxUnchoked(dir) = 9 /\ RequestedOf(dir) = <<10, 2, 50>>) =>
                UnchokedOf(dir) = <<3, 2, 4>>

\* Reached: the groups requesting 10, 2 and 50 uploads after a tick with
\* the limit 9.
C29_Witness ==
  /\ Ticked /\ rm.res = "ok"
  /\ maxUploadUnchoked = 9
  /\ RequestedOf("up") = <<10, 2, 50>>
  /\ UnchokedOf("up") = <<3, 2, 4>>

(***************************************************************************)
(* C30: a tick under a limit is work-conserving: with cycle(q) leaving     *)
(* min(requested, q) unchoked, after a tick with max_unchoked = M > 0      *)
(* either the unchoked counts of the groups sum to M or every group has    *)
(* all that it requested unchoked.                                         *)
(***************************************************************************)
C30_WorkConserving ==
  (Ticked /\ rm.res = "ok") =>
    \A dir \in Dirs :
      MaxUnchoked(dir) > 0 =>
        \/ SumUnchoked(queues, dir) = MaxUnchoked(dir)
        \/ \A i \in 1..Len(queues) : queues[i][dir].unch = queues[i][dir].req

\* Reached: three groups that all request downloads, more than the limit 4
\* admits, and a tick has handed out all 4.
C30_Witness ==
  /\ Ticked /\ rm.res = "ok"
  /\ maxDownloadUnchoked = 4
  /\ Len(queues) = 3
  /\ \A i \in 1..3 : queues[i]["down"].req > 0
  /\ SumUnchoked(queues, "down") = 4
  /\ \E i \in 1..3 : queues[i]["down"].unch < queues[i]["down"].req

(***************************************************************************)
(* C31: after every update_failed on a BlockList, for each block: the      *)
(* entries of its failed list hold pairwise distinct bytes, exactly one    *)
(* entry equals the chunk's bytes in the block's range, that entry is the  *)
(* block's current entry and its index is the leader transfer's            *)
(* failed_index; bytes never seen were appended with count 1, bytes seen   *)
(* before had their count raised by exactly one, every other entry is as   *)
(* it was; so the counts of a block always sum to the number of            *)
(* update_failed runs on its BlockList.                                    *)
(***************************************************************************)
\* The offsets of the BlockLists hash_failed would run update_failed on
Updatable ==
  {k \in 0..(Len(transferList) - 1) :
     AllFinished(transferList[k + 1]) /\ transferList[k + 1].attempt = 0}

\* The sum of the counts of a failed list
Counts(fl) == SumSeq([j \in 1..Len(fl) |-> fl[j].count])

\* new is the block old after an update_failed
UpdatedBlock(old, new) ==
  LET fl   == old.failedList
      nfl  == new.failedList
      same == {j \in 1..Len(nfl) : nfl[j].data = old.bytes}
  IN /\ new.bytes = old.bytes
     /\ \A i, j \in 1..Len(nfl) : i # j => nfl[i].data # nfl[j].data
     /\ Cardinality(same) = 1
     /\ \A j \in same :
          /\ new.current = j - 1
          /\ new.transfers[new.leader + 1].failedIndex = j - 1
     /\ IF \E j \in 1..Len(fl) : fl[j].data = old.bytes
        THEN /\ Len(nfl) = Len(fl)
             /\ \A j \in 1..Len(fl) :
                  /\ nfl[j].data = fl[j].data
                  /\ nfl[j].count =
                       IF fl[j].data = old.bytes THEN fl[j].count + 1 ELSE fl[j].count
        ELSE nfl = Append(fl, [data |-> old.bytes, count |-> 1])

C31_UpdateFailedEntries ==
  /\ \A k \in 1..Len(transferList) : \A b \in 1..Len(transferList[k].blocks) :
       Counts(transferList[k].blocks[b].failedList) = transferList[k].failed
  /\ \A k \in Updatable :
       LET bl == transferList[k + 1]
           u  == UpdateFailed(bl).blockList
       IN /\ u.failed = bl.failed + 1
          /\ \A b \in 1..Len(bl.blocks) :
               /\ UpdatedBlock(bl.blocks[b], u.blocks[b])
               /\ Counts(u.blocks[b].failedList) = u.failed

\* Reached: after three runs a block has seen one variant twice and another
\* one once.
C31_Witness ==
  /\ tl.op = "hash_failed" /\ tl.res = "ok"
  /\ Len(transferList) = 1
  /\ transferList[1].failed = 3
  /\ \E b \in 1..Len(transferList[1].blocks) :
       LET fl == transferList[1].blocks[b].failedList
       IN Len(fl) = 2 /\ fl[1].count = 2 /\ fl[2].count = 1

(***************************************************************************)
(* C32: the promoted count update_failed returns is the number of blocks   *)
(* whose chunk bytes matched an entry of the failed list that, before its  *)
(* count was raised, held the largest count of the block together with at  *)
(* least one other entry.  A block whose matched entry was the only one    *)
(* with the largest count, or was below it, or whose bytes were new, does  *)
(* not count.                                                              *)
(***************************************************************************)
\* Do the block's bytes match an entry that shares the largest count?
MatchesTiedMax(block) ==
  LET fl == block.failedList
  IN \E j \in 1..Len(fl) :
       /\ fl[j].data = block.bytes
       /\ \A i \in 1..Len(fl) : fl[i].count <= fl[j].count
       /\ \E i \in 1..Len(fl) : i # j /\ fl[i].count = fl[j].count

FailedIndices(block) == [n \in 1..Len(block.transfers) |-> block.transfers[n].failedIndex]

LastLargest(fl) ==
  (CHOOSE j \in 1..Len(fl) :
     /\ \A i \in 1..Len(fl) : fl[i].count <= fl[j].count
     /\ \A i \in (j + 1)..Len(fl) : fl[i].count < fl[j].count) - 1

\* The block holds the most popular bytes
MostPopularHeld(block) ==
  /\ block.failedList # <<>>
  /\ block.current = LastLargest(block.failedList)
  /\ block.bytes = block.failedList[block.current + 1].data

C33_RetryMostPopular ==
  /\ \A k \in 1..Len(transferList) :
       transferList[k].attempt = 1 =>
         \A b \in 1..Len(transferList[k].blocks) :
           MostPopularHeld(transferList[k].blocks[b])
  /\ (tl.op = "hash_failed" /\ tl.res = "ok") =>
       \E k \in 1..Len(transferList) :
         tl.events = IF transferList[k].attempt = 1
                     THEN <<Event("completed", transferList[k].index)>>
                     ELSE <<>>
  /\ \A k \in Updatable :
       LET u == UpdateFailed(transferList[k + 1]).blockList
           r == RetryMostPopular([u EXCEPT !.attempt = 1])
       IN /\ r.res = "ok"
          /\ r.events = <<Event("completed", u.index)>>
          /\ \A b \in 1..Len(u.blocks) :
               u.blocks[b].current = LastLargest(u.blocks[b].failedList) =>
                 r.blockList.blocks[b] = u.blocks[b]

\* Reached: the retry wrote the bytes seen twice back into the first block,
\* whose leader had delivered other bytes, and left the second block alone.
C33_Witness ==
  /\ tl.op = "hash_failed" /\ tl.events = <<Event("completed", 1)>>
  /\ Len(transferList) = 1 /\ transferList[1].attempt = 1
  /\ LET b1 == transferList[1].blocks[1]
         b2 == transferList[1].blocks[2]
     IN /\ FailedIndices(b1) = <<0, 0, 1>>
        /\ b1.current = 0 /\ b1.bytes = b1.failedList[1].data
        /\ FailedIndices(b2) = <<0, 0, 0>>
        /\ b2.current = 0

(***************************************************************************)
(* C34: for every BlockList, its failed field equals the number of         *)
(* hash_failed verdicts accepted for that piece so far: every accepted     *)
(* hash_failed raises the list-wide failedCount and the piece's failed by  *)
(* one.  Where a single piece is in flight and never erased, failedCount   *)
(* is the number of verdicts accepted for it.                              *)
(***************************************************************************)
C34_FailedCountsVerdicts ==
  \A k \in 1..Len(transferList) : transferList[k].failed = failedCount

\* What the code does: failed is raised by update_failed only, which runs
\* for the verdicts that find attempt 0; the verdict on the retry is not
\* counted.
FailedCountsFirstVerdicts ==
  \A k \in 1..Len(transferList) :
    failedCount = 2 * transferList[k].failed - transferList[k].attempt

(***************************************************************************)
(* C35: within one UDP request the phases are ordered.  An announce        *)
(* datagram is written only after a connect reply of at least 16 bytes     *)
(* with action 0 and the request's transaction id was received, and it     *)
(* carries the connection id of that reply; on that reply the tries        *)
(* counter is set back to udp_tries and the timeout armed again.  Once in  *)
(* the announce phase a timeout sends the same announce again, with the    *)
(* cached connection id, and the request never returns to the connect      *)
(* phase.  receive_success is delivered at most once per request, and the  *)
(* socket is closed after it.                                              *)
(***************************************************************************)
\* The datagram the socket writes is the one of the request's phase
DatagramOfPhase ==
  udp.fd =>
    IF udp.action = 0
    THEN /\ Len(udp.writeBuffer) = 16
         /\ Field(udp.writeBuffer, 0, 8) = MagicConnectionId
         /\ udp.connectionId = MagicConnectionId
    ELSE /\ udp.action = 1
         /\ Len(udp.writeBuffer) = 98
         /\ Field(udp.writeBuffer, 0, 8) = udp.connectionId
         /\ udp.connectionId # MagicConnectionId

\* The receive_success calls delivered so far
Successes == {n \in 1..Len(parent) : parent[n].call = "receive_success"}

\* This step takes the request from the connect to the announce phase
EntersAnnounce == udp.fd /\ udp.action = 0 /\ udp'.action = 1

\* The step is the receipt of a valid connect reply, whose connection id
\* the tracker now holds
ConnectReplyReceived ==
  \E s \in {16, 19, 20, 26}, c \in PhaseConnectionIds,
     random \in TransactionIds, info \in PlainInfos :
    /\ EventRead(s, Reply(0, udp.transactionId, c), random, info)
    /\ udp'.connectionId = Read64(Reply(0, udp.transactionId, c), 8)

C35_PhasesOrdered ==
  /\ [](DatagramOfPhase /\ Cardinality(Successes) <= wire.sends)
  /\ [][EntersAnnounce =>
          /\ ConnectReplyReceived
          /\ udp'.fd /\ udp'.timer /\ udp'.pollWrite
          /\ udp'.tries = udp.udpTries
          /\ wire'.count = 0 /\ wire'.timeouts = 0]_vars
  /\ [][(udp.fd /\ udp.action = 1 /\ udp'.fd) =>
          /\ udp'.action = 1
          /\ udp'.connectionId = udp.connectionId
          /\ udp'.writeBuffer = udp.writeBuffer
          /\ wire'.timeouts # wire.timeouts => udp'.pollWrite /\ udp'.timer]_vars
  /\ [][Successes' # Successes =>
          /\ udp.fd /\ udp.action = 1
          /\ ~udp'.fd /\ ~udp'.timer /\ ~udp'.pollRead /\ ~udp'.pollWrite
          /\ Cardinality(Successes') = Cardinality(Successes) + 1]_vars

\* Reached: the announce under the connection id 9 of the connect reply was
\* written twice, the second time after a timeout, and then answered.
C35_Witness ==
  /\ ~udp.fd
  /\ udp.action = 1
  /\ udp.connectionId = Read64(Reply(0, 1, 9), 8)
  /\ wire.count = 2 /\ wire.timeouts = 1
  /\ Len(parent) = 1 /\ parent[1].call = "receive_success"

(***************************************************************************)
(* C36: a UDP tracker has at most one live resolver slot at any time.  A   *)
(* new send_state and the tracker's destruction empty the slot that was    *)
(* pending, so the resolver's callback for a superseded request or for a   *)
(* destroyed tracker never runs start_announce, and start_announce runs    *)
(* at most once per send_state.                                            *)
(***************************************************************************)
\* The resolver slots that would still call start_announce
LiveSlots == {i \in DOMAIN resolver : resolver[i] = "pending"}

\* The slots whose callback has run start_announce
RunSlots == {i \in DOMAIN resolver : resolver[i] = "done"}

C36_OneLiveSlot ==
  /\ [](/\ LiveSlots \subseteq {udp.slot}
        /\ wire.destroyed => LiveSlots = {}
        /\ Len(resolver) <= wire.sends
        /\ Cardinality(RunSlots) <= wire.sends)
  /\ [][/\ RunSlots \subseteq RunSlots'
        /\ \A i \in RunSlots' \ RunSlots :
             /\ i = udp.slot /\ resolver[i] = "pending"
             /\ ~wire.destroyed
             /\ i = Len(resolver)
             /\ udp'.slot = 0
             /\ LiveSlots' = {}]_vars

\* Reached: the first request was superseded while the resolver worked on
\* it, the second one's lookup was pending when the tracker was destroyed.
C36_Witness ==
  /\ wire.destroyed
  /\ wire.sends = 2
  /\ resolver = <<"cleared", "cleared">>
  /\ udp.slot = 0
  /\ ~udp.fd

(***************************************************************************)
(* C37: insert called with an entry whose group does not exist fails with  *)
(* an error and leaves the entry vector and every group's first and last   *)
(* boundary unchanged.                                                     *)
(***************************************************************************)
\* The step is an insert that threw
InsertFailed == failedInserts' # failedInserts

C37_FailedInsertChangesNothing ==
  [][InsertFailed =>
       /\ rm'.res = "out_of_range"
       /\ entries' = entries
       /\ groups' = groups]_vars

\* What the code does: the entry is in the vector when at() throws, and the
\* groups' boundaries are left as they were, pointing into the old storage
\* where the vector grew.
FailedInsertKeepsEntry ==
  [][InsertFailed =>
       /\ rm'.res = "out_of_range"
       /\ Len(entries') = Len(entries) + 1
       /\ \E k \in DOMAIN entries' :
            /\ entries'[k].group >= Len(groups)
            /\ entries'[k].download \notin Registered
            /\ entries = RemoveAt(entries', k - 1)
       /\ groups' = groups
       /\ chokeGroup' = chokeGroup]_vars

(***************************************************************************)
(* C38: every started UDP request that receives no valid reply eventually  *)
(* ends with receive_failed and a closed socket, for every configured      *)
(* udp_tries value including 0, when the timeout timer fires fairly; the   *)
(* tries counter never wraps past zero.                                    *)
(***************************************************************************)
\* One UDP tracker configured with any udp_tries, zero included, whose
\* requests get no valid reply.  The timer fires as long as a request that
\* ends after at most MaxTries timeouts could need it, and once more.
InitTries ==
  /\ InitRM /\ InitTL /\ InitStream /\ InitProbe /\ InitTrk
  /\ \E udp_tries \in 0..MaxTries, urlOk \in BOOLEAN :
       Constructed(urlOk, udp_tries)

Timeout == wire.timeouts <= MaxTries /\ ReceiveTimeout

InvalidRead ==
  \E s \in ReplySizes, action \in ReplyActions,
     transaction_id \in TransactionIds, c \in ReplyConnectionIds,
     random \in TransactionIds, info \in PlainInfos :
    /\ NoValidReply(s, action, transaction_id, udp)
    /\ EventRead(s, Reply(action, transaction_id, c), random, info)

NextTries ==
  \/ \E state \in SendStates : UdpSendState(state)
  \/ \E i \in SendNumbers, outcome \in StartOutcomes,
        random \in TransactionIds :
       StartAnnounce(i, outcome, random)
  \/ Timeout
  \/ EventWrite
  \/ InvalidRead

\* The scheduler fires a task that stays queued.
SpecTries == InitTries /\ [][NextTries]_vars /\ WF_vars(Timeout)

\* The step closes the socket of a request that no send_state replaced.
RequestEnds == udp.fd /\ ~udp'.fd /\ wire'.sends = wire.sends

C38_RequestEnds ==
  /\ [](udp.fd => udp.tries \in 0..udp.udpTries)
  /\ [][RequestEnds => parent' = Append(parent, UnableToConnect)]_vars
  /\ udp.fd ~> ~udp.fd

\* What the code does: where udp_tries is 1 or more the request ends as
\* said, with the counter within 1..udp_tries while the socket is open.
RequestEndsWithPositiveTries ==
  /\ [](udp.fd /\ udp.udpTries > 0 => udp.tries \in 1..udp.udpTries)
  /\ [][RequestEnds => parent' = Append(parent, UnableToConnect)]_vars
  /\ (udp.fd /\ udp.udpTries > 0) ~> ~udp.fd

\* With udp_tries = 0 the first timeout takes the counter from 0 to
\* 2^32 - 1 (here -1) and re-arms the timer; the request goes on.
ZeroTriesWraps ==
  [][(udp.fd /\ udp.udpTries = 0 /\ wire'.timeouts = wire.timeouts + 1) =>
       /\ udp'.fd /\ udp'.timer /\ udp'.pollWrite
       /\ udp'.tries = udp.tries - 1
       /\ udp'.tries < 0
       /\ parent' = parent]_vars

(***************************************************************************)
(* C39: whenever an HTTP or UDP transport reports an outcome to the        *)
(* TrackerList (receive_success, receive_failed, receive_scrape_success,   *)
(* receive_scrape_failed) the tracker is already not busy at the moment of *)
(* the call, so for a tracker in the list the TrackerList never raises its *)
(* "iterator is invalid" internal_error, and each request reports at most  *)
(* one outcome.                                                            *)
(***************************************************************************)
\* A download whose tracker list holds either one UDP tracker or an HTTP
\* tracker: the transports share no state, and a behaviour follows one.
NextTransports ==
  \/ \E state \in SendStates : trackers = <<>> /\ UdpSendState(state)
  \/ \E i \in SendNumbers, outcome \in StartOutcomes,
        random \in TransactionIds :
       StartAnnounce(i, outcome, random)
  \/ wire.sends > 0 /\ UdpClose
  \/ wire.sends > 0 /\ UdpDisown
  \/ ReceiveTimeout
  \/ EventWrite
  \/ \E s \in ReplySizes, action \in ReplyActions,
        transaction_id \in TransactionIds, c \in ReplyConnectionIds,
        random \in TransactionIds, info \in PlainInfos :
       EventRead(s, Reply(action, transaction_id, c), random, info)
  \/ \E group \in HttpGroups : wire.sends = 0 /\ HttpInsert({1}, group)
  \/ \E new_event \in Events :
       TotalRequests \in HttpRequests /\ TrkSendState(0, new_event)
  \/ \E recent \in BOOLEAN :
       TotalRequests \in HttpRequests /\ TrkSendScrape(0, recent)
  \/ \E b \in Responses, time \in CachedTimes : HttpReceiveDone(0, b, time)
  \/ \E time \in CachedTimes : HttpSignalFailed(0, time)

SpecTransports == InitAnnounce /\ [][NextTransports]_vars

\* The calls with which a transport reports an outcome to the list
OutcomeCalls == {"success", "failed", "scrape_success", "scrape_failed"}

\* The trackers of the list with a request under way, by id
BusyIds == {trackers[k].id : k \in {j \in DOMAIN trackers : trackers[j].busy}}

\* The HTTP tracker at offset k, when busy, reports whatever the transfer
\* ends with as one outcome, not busy, and the list accepts it.
HttpReportsIdle(k) ==
  trackers[k + 1].busy =>
    \A time \in CachedTimes :
      /\ \A b \in Responses :
           LET r == ReceiveDoneResult(trackers, k, b, time)
           IN /\ r.res = "ok"
              /\ Len(r.calls) = 1 /\ r.calls[1] \in OutcomeCalls
              /\ \A j \in DOMAIN r.list : ~r.list[j].busy
      /\ LET r == HttpReceiveFailed(trackers, k, time)
         IN /\ r.res = "ok"
            /\ Len(r.calls) = 1 /\ r.calls[1] \in OutcomeCalls
            /\ \A j \in DOMAIN r.list : ~r.list[j].busy

C39_ReportedWhenIdle ==
  /\ [](/\ trk.res # "internal_error"
        /\ \A k \in 0..(Len(trackers) - 1) : HttpReportsIdle(k)
        /\ Len(parent) <= wire.sends)
  /\ [][Len(parent') > Len(parent) =>
          /\ ~udp'.fd
          /\ Len(parent') = Len(parent) + 1]_vars
  /\ [][(trk' # trk /\ \E c \in OutcomeCalls : c \in {trk'.calls[j] : j \in DOMAIN trk'.calls}) =>
          /\ Len(trk'.calls) = 1
          /\ BusyIds # {} /\ BusyIds' = {}]_vars

\* Reached: the HTTP tracker's second request, a scrape, ended with a
\* failure that the list was told while the tracker was idle.
C39_Witness ==
  /\ trk.op = "receive_done" /\ trk.res = "ok"
  /\ trk.calls = <<"scrape_failed">>
  /\ Len(trackers) = 1 /\ ~trackers[1].busy
  /\ trackers[1].requests = 2

(***************************************************************************)
(* C40: a failed HTTP scrape of any kind (transport failure, unparsable    *)
(* body, failure reason, missing files) leaves the tracker's               *)
(* normal_interval, min_interval, failed counter, failed_time_last,        *)
(* success counter and tracker_id unchanged.                               *)
(***************************************************************************)
\* The step ends the scrape of the tracker at position k with a failure
\* that the handler op reports.
ScrapeFails(k, op) ==
  /\ k \in DOMAIN trackers
  /\ trackers[k].busy /\ trackers[k].latestEvent = "SCRAPE"
  /\ Len(trackers') = Len(trackers)
  /\ ~trackers'[k].busy
  /\ trk'.op = op /\ trk'.calls = <<"scrape_failed">>

AnnounceStateKept(old, new) ==
  /\ new.normalInterval = old.normalInterval
  /\ new.minInterval = old.minInterval
  /\ new.failed = old.failed
  /\ new.failedTimeLast = old.failedTimeLast
  /\ new.success = old.success
  /\ new.trackerId = old.trackerId

C40_FailedScrapeKeepsAnnounceState ==
  [][\A k \in DOMAIN trackers, op \in {"receive_done", "signal_failed"} :
       ScrapeFails(k, op) => AnnounceStateKept(trackers[k], trackers'[k])]_vars

\* What the code does: a scrape that fails in receive_done (unparsable body,
\* failure reason, missing files) keeps the announce state, and one whose
\* transfer fails has both intervals set to zero by the signal_failed slot
\* and keeps the rest.
FailedScrapeZeroesIntervalsOnTransportFailure ==
  [][\A k \in DOMAIN trackers :
       /\ ScrapeFails(k, "receive_done") =>
            AnnounceStateKept(trackers[k], trackers'[k])
       /\ ScrapeFails(k, "signal_failed") =>
            trackers'[k] = [trackers[k] EXCEPT !.busy = FALSE,
                                               !.normalInterval = 0,
                                               !.minInterval = 0]]_vars
=============================================================================
